---- MODULE Spec2Model ----
(***************************************************************************)
(* Model of the geoApi symbology module (renderer classification, legend   *)
(* construction, renderer enhancement, icon drawing, zoom-level search)    *)
(* and of the layer records of layerRecord.js (construction, layer events, *)
(* listeners, feature counts, attribute cache, child visibility, child     *)
(* controls, identify).                                                    *)
(*                                                                         *)
(* JavaScript values are modelled as tagged records: JsStr, JsNum, JsNull, *)
(* JsUndef.  A function that can throw returns Ok(v) or Throw.  Numbers    *)
(* that the icon drawer halves (size / 2) are carried doubled, so that     *)
(* x.5 stays an integer; Num2Str prints a doubled number the way           *)
(* Number.prototype.toString prints the number itself.                     *)
(***************************************************************************)
EXTENDS Integers, Sequences, FiniteSets, TLC

VARIABLES
    renderer,    \* the renderer object handed to the module (modified in place by enhanceRenderer)
    legend,      \* what rendererToLegend returned for renderer, or NoLegend
    attributes,  \* the attributes of the last feature classified
    result,      \* what searchRenderer did on (attributes, renderer): Ok({imageUrl, symbol}) or Throw
    phase,       \* position of the layer-load pipeline: "raw", "legend", "enhanced"
    lods,        \* getZoomLevel: the sequence of level scales
    maxScale,    \* getZoomLevel: the scale threshold
    currentLod,  \* getZoomLevel: local currentLod
    lowLod,      \* getZoomLevel: local lowLod
    highLod,     \* getZoomLevel: local highLod
    found,       \* getZoomLevel: local found
    zpc,         \* getZoomLevel: control position
    zret,        \* getZoomLevel: returned index (NoIndex before the return)
    args,        \* layer record: the arguments of the constructor call
    record,      \* layer record: the record object, JsUndef before and after a failed construction
    rpc,         \* layer record: "new" before the constructor ran, then "ready" or "threw"
    loads,       \* layer record: load events whose EPSG lookup promise is pending
    dispatch,    \* layer record: the _fireEvent call running or last run
    outcome,     \* layer record: how the last call of a record method by the client ended
    featureCount,        \* AttrRecord.getFeatureCount: the call, its requests and its promise
    formattedAttributes, \* AttribFC: _formattedAttributes and the promises it was given
    visibility,          \* DynamicFC: the parent's visibleLayers and the calls made on the children
    controls,            \* DynamicRecord: the layer given, _controls and the last getChildControl
    identify             \* DynamicRecord.identify: the results handed out and the promises behind them

vars == <<renderer, legend, attributes, result, phase,
          lods, maxScale, currentLod, lowLod, highLod, found, zpc, zret,
          args, record, rpc, loads, dispatch, outcome,
          featureCount, formattedAttributes, visibility, controls, identify>>

recordVars == <<args, record, rpc, loads, dispatch, outcome>>
featureVars == <<featureCount, formattedAttributes, visibility, controls, identify>>
layerVars == <<recordVars, featureVars>>

rendererVars == <<renderer, legend, attributes, result, phase>>
zoomVars == <<lods, maxScale, currentLod, lowLod, highLod, found, zpc, zret>>
symbologyVars == <<rendererVars, zoomVars>>

-----------------------------------------------------------------------------
(* JavaScript values *)

JsUndef == [t |-> "undefined"]
JsNull == [t |-> "null"]
JsStr(s) == [t |-> "string", s |-> s]
JsNum(n) == [t |-> "number", n |-> n]

Ok(v) == [ok |-> TRUE, v |-> v]
Throw == [ok |-> FALSE]

\* ToBoolean on the values the module tests for truthiness.
Truthy(v) ==
    CASE v = JsUndef -> FALSE
      [] v = JsNull -> FALSE
      [] "t" \notin DOMAIN v -> TRUE    \* an object
      [] v.t = "string" -> v.s # ""
      [] v.t = "number" -> v.n # 0
      [] OTHER -> TRUE

\* String(v), as used by string concatenation and template literals.
JsToString(v) ==
    CASE v = JsUndef -> "undefined"
      [] v = JsNull -> "null"
      [] v.t = "string" -> v.s
      [] v.t = "number" -> ToString(v.n)

\* Number.prototype.toString of d / 2 for an integer d >= 0.
Num2Str(d) ==
    IF d % 2 = 0 THEN ToString(d \div 2) ELSE ToString(d \div 2) \o ".5"

Min(a, b) == IF a < b THEN a ELSE b

-----------------------------------------------------------------------------
(* Program constants *)

maxW == 32
maxH == 32

SIMPLE == "simple"
UNIQUE_VALUE == "uniqueValue"
CLASS_BREAKS == "classBreaks"

emptySVG == "<svg xmlns='http://www.w3.org/2000/svg' width='32' height='32'></svg>"

-----------------------------------------------------------------------------
(* Icon drawer *)

NoColour == <<>>

colourToRgb(c) ==
    IF c # NoColour
      THEN "rgb(" \o ToString(c[1]) \o "," \o ToString(c[2]) \o "," \o ToString(c[3]) \o ")"
      ELSE "none"

\* c[3].toString() throws when the colour array has no fourth component.
colourToOpacity(c) ==
    IF c # NoColour
      THEN IF Len(c) >= 4 THEN Ok(ToString(c[4])) ELSE Throw
      ELSE Ok("0")

newSVG(type) == [type |-> type, props |-> <<>>]

addProp(svg, name, value) ==
    [svg EXCEPT !.props = Append(@, [name |-> name, value |-> value])]

\* The markup is a sequence of tokens; DQ is the double quote belch writes.
DQ == "\""
SQ == "'"

RECURSIVE belchProps(_)
belchProps(props) ==
    IF props = <<>> THEN <<>>
    ELSE <<" " \o Head(props).name \o "=", DQ, Head(props).value, DQ>> \o belchProps(Tail(props))

belch(svg) == <<"<" \o svg.type>> \o belchProps(svg.props) \o <<" />">>

applyFill(symbol, svg) ==
    LET fill == IF symbol.type = "esriSFS" /\ symbol.style # "esriSFSSolid"
                  THEN "none" ELSE colourToRgb(symbol.color)
        op == colourToOpacity(symbol.color)
    IN  IF ~op.ok THEN Throw
        ELSE Ok(addProp(addProp(addProp(svg, "fill", fill), "fill-opacity", op.v),
                        "fill-rule", "evenodd"))

dashMap(style) ==
    CASE style = "esriSLSSolid" -> JsStr("none")
      [] style = "esriSLSDash" -> JsStr("5.333,4")
      [] style = "esriSLSDashDot" -> JsStr("5.333,4,1.333,4")
      [] style = "esriSLSLongDashDotDot" -> JsStr("10.666,4,1.333,4,1.333,4")
      [] style = "esriSLSDot" -> JsStr("1.333,4")
      [] style = "esriSLSLongDash" -> JsStr("10.666,4")
      [] style = "esriSLSLongDashDot" -> JsStr("10.666,4,1.333,4")
      [] style = "esriSLSShortDash" -> JsStr("5.333,1.333")
      [] style = "esriSLSShortDashDot" -> JsStr("5.333,1.333,1.333,1.333")
      [] style = "esriSLSShortDashDotDot" -> JsStr("5.333,1.333,1.333,1.333,1.333,1.333")
      [] style = "esriSLSShortDot" -> JsStr("1.333,1.333")
      [] style = "esriSLSNull" -> JsStr("none")
      [] OTHER -> JsUndef

\* lineSymbol.style throws on a missing line symbol, lineSymbol.width.toString()
\* on a missing width.
applyLine(lineSymbol, svg) ==
    IF lineSymbol = JsUndef THEN Throw
    ELSE
      LET stroke == IF lineSymbol.style = "esriSLSNull" THEN "none" ELSE colourToRgb(lineSymbol.color)
          op == colourToOpacity(lineSymbol.color)
      IN  IF ~op.ok \/ lineSymbol.width = JsUndef THEN Throw
          ELSE Ok(addProp(addProp(addProp(addProp(addProp(addProp(addProp(svg,
                    "stroke", stroke),
                    "stroke-opacity", op.v),
                    "stroke-width", JsToString(lineSymbol.width)),
                    "stroke-linecap", "butt"),
                    "stroke-linejoin", "miter"),
                    "stroke-miterlimit", "4"),
                    "stroke-dasharray", JsToString(dashMap(lineSymbol.style))))

applyRotation(symbol, svg) ==
    LET angle == IF Truthy(symbol.angle) THEN symbol.angle ELSE JsNum(0)
    IN  addProp(svg, "transform",
                "rotate(" \o JsToString(angle) \o "," \o Num2Str(maxW) \o "," \o Num2Str(maxH) \o ")")

\* The radius, doubled: 2 * Math.min(size / 2, (maxW - 4) / 2).
circleRadius2(size) == Min(size, maxW - 4)

makeCircleSVG(symbol) ==
    addProp(addProp(addProp(newSVG("circle"),
        "r", Num2Str(circleRadius2(symbol.size.n))),
        "cx", Num2Str(maxW)),
        "cy", Num2Str(maxH))

\* getGlyphCorners without the trim to the image size.
getGlyphCornersUntrimmed(size) ==
    [upLeft |-> maxW - size, loRite |-> maxW + size, middle |-> maxW]

\* The corners, doubled: upLeft = 2 * (middle - offset) and so on.
getGlyphCorners(size) ==
    LET trimSize == Min(size, maxW - 4)
    IN  [upLeft |-> maxW - trimSize, loRite |-> maxW + trimSize, middle |-> maxW]

glyphPath(style, c) ==
    LET ul == Num2Str(c.upLeft)
        lr == Num2Str(c.loRite)
        m == Num2Str(c.middle)
    IN  CASE style = "esriSMSCross" ->
               JsStr("M " \o ul \o "," \o m \o " " \o lr \o "," \o m
                     \o " M " \o m \o "," \o lr \o " " \o m \o "," \o ul)
          [] style = "esriSMSDiamond" ->
               JsStr("M " \o ul \o "," \o m \o " " \o m \o "," \o lr \o " " \o lr \o "," \o m
                     \o " " \o m \o "," \o ul \o " Z")
          [] style = "esriSMSSquare" ->
               JsStr("M " \o ul \o "," \o ul \o " " \o ul \o "," \o lr \o " " \o lr \o "," \o lr
                     \o " " \o lr \o "," \o ul \o " Z")
          [] style = "esriSMSX" ->
               JsStr("M " \o ul \o "," \o ul \o " " \o lr \o "," \o lr
                     \o " M " \o ul \o "," \o lr \o " " \o lr \o "," \o ul)
          [] style = "esriSMSTriangle" ->
               JsStr("M " \o ul \o "," \o lr \o " " \o m \o "," \o ul \o " " \o lr \o "," \o lr \o " Z")
          [] OTHER -> JsUndef

makeGlyphSVG(symbol) ==
    LET path == IF symbol.style = "esriSMSPath" THEN symbol.path
                ELSE glyphPath(symbol.style, getGlyphCorners(symbol.size.n))
    IN  addProp(newSVG("path"), "d", JsToString(path))

makeMarkerSVG(symbol) ==
    LET rotate(filled) == IF filled.ok THEN Ok(applyRotation(symbol, filled.v)) ELSE Throw
        fill(lined) == rotate(IF lined.ok THEN applyFill(symbol, lined.v) ELSE Throw)
    IN  fill(applyLine(symbol.outline,
                       IF symbol.style = "esriSMSCircle" THEN makeCircleSVG(symbol)
                       ELSE makeGlyphSVG(symbol)))

makePolySVG(symbol) ==
    LET line(filled) == IF filled.ok THEN applyLine(symbol.outline, filled.v) ELSE Throw
    IN  line(applyFill(symbol,
                       addProp(addProp(addProp(addProp(newSVG("rect"),
                           "x", "4"), "y", "4"),
                           "width", ToString(maxW - 8)),
                           "height", ToString(maxH - 8))))

makeLineSVG(symbol) ==
    applyLine(symbol,
              addProp(newSVG("path"), "d",
                      "M 4,4 " \o ToString(maxW - 4) \o "," \o ToString(maxH - 4)))

\* String.prototype.replace(/"/g, `'`) on the token sequence.
replaceQuotes(tokens) ==
    [i \in 1..Len(tokens) |-> IF tokens[i] = DQ THEN SQ ELSE tokens[i]]

RECURSIVE joinTokens(_)
joinTokens(tokens) ==
    IF tokens = <<>> THEN "" ELSE Head(tokens) \o joinTokens(Tail(tokens))

typeHandler(symbol) ==
    CASE symbol.type = "esriSMS" -> makeMarkerSVG(symbol)
      [] symbol.type = "esriSLS" -> makeLineSVG(symbol)
      [] symbol.type = "esriCLS" -> makeLineSVG(symbol)
      [] symbol.type = "esriSFS" -> makePolySVG(symbol)
      [] OTHER -> Throw

makeSVG(symbol) ==
    LET head == <<"<svg xmlns=", DQ, "http://www.w3.org/2000/svg", DQ,
                  " width=", DQ, ToString(maxW), DQ, " height=", DQ, ToString(maxH), DQ, ">">>
        foot == <<"</svg>">>
        wrap(svg) == IF svg.ok THEN Ok(joinTokens(replaceQuotes(head \o belch(svg.v) \o foot)))
                     ELSE Throw
    IN  wrap(typeHandler(symbol))

-----------------------------------------------------------------------------
(* Legend builder *)

\* symbolImage with the text symbol left to the blank image instead of thrown.
symbolImageTextNotThrown(symbol) ==
    IF symbol = JsUndef THEN Throw
    ELSE CASE symbol.type \in {"esriSMS", "esriSLS", "esriSFS", "esriCLS"} ->
                LET image(made) ==
                        IF made.ok
                          THEN Ok([imageData |-> JsStr(made.v), contentType |-> JsStr("image/svg+xml"), base |-> ""])
                          ELSE Throw
                IN  image(makeSVG(symbol))
           [] symbol.type \in {"esriPMS", "esriPFS"} ->
                Ok([imageData |-> symbol.imageData, contentType |-> symbol.contentType, base |-> ";base64"])
           [] OTHER ->
                Ok([imageData |-> JsStr(emptySVG), contentType |-> JsStr("image/svg+xml"), base |-> ""])

\* symbolImage with a picture symbol drawn as the blank image.
symbolImagePictureBlank(symbol) ==
    IF symbol = JsUndef THEN Throw
    ELSE CASE symbol.type \in {"esriSMS", "esriSLS", "esriSFS", "esriCLS"} ->
                LET image(made) ==
                        IF made.ok
                          THEN Ok([imageData |-> JsStr(made.v), contentType |-> JsStr("image/svg+xml"), base |-> ""])
                          ELSE Throw
                IN  image(makeSVG(symbol))
           [] symbol.type = "esriTS" -> Throw
           [] OTHER ->
                Ok([imageData |-> JsStr(emptySVG), contentType |-> JsStr("image/svg+xml"), base |-> ""])

\* The body of symbolToLegend's try block: the image of one symbol, or a throw.
\* symbol.type throws on a missing symbol; a type the switch does not list
\* leaves the initial blank image.
symbolImage(symbol) ==
    IF symbol = JsUndef THEN Throw
    ELSE CASE symbol.type \in {"esriSMS", "esriSLS", "esriSFS", "esriCLS"} ->
                LET image(made) ==
                        IF made.ok
                          THEN Ok([imageData |-> JsStr(made.v), contentType |-> JsStr("image/svg+xml"), base |-> ""])
                          ELSE Throw
                IN  image(makeSVG(symbol))
           [] symbol.type \in {"esriPMS", "esriPFS"} ->
                Ok([imageData |-> symbol.imageData, contentType |-> symbol.contentType, base |-> ";base64"])
           [] symbol.type = "esriTS" -> Throw
           [] OTHER ->
                Ok([imageData |-> JsStr(emptySVG), contentType |-> JsStr("image/svg+xml"), base |-> ""])

\* symbolToLegend with a catch block that keeps the label.
symbolToLegendKeepsLabel(symbol, label) ==
    LET item(img) ==
            IF img.ok
              THEN [label |-> label, imageData |-> img.v.imageData,
                    contentType |-> img.v.contentType, base |-> img.v.base]
              ELSE [label |-> label, imageData |-> JsStr(emptySVG),
                    contentType |-> JsStr("image/svg+xml"), base |-> ""]
    IN  item(symbolImage(symbol))

symbolToLegend(symbol, label) ==
    LET item(img) ==
            IF img.ok
              THEN [label |-> label, imageData |-> img.v.imageData,
                    contentType |-> img.v.contentType, base |-> img.v.base]
              ELSE [label |-> JsStr("Error!"), imageData |-> JsStr(emptySVG),
                    contentType |-> JsStr("image/svg+xml"), base |-> ""]
    IN  item(symbolImage(symbol))

\* a || b
JsOr(a, b) == IF Truthy(a) THEN a ELSE b

\* scrapeListRenderer without the default entry.
scrapeListRendererNoDefault(r, childList) ==
    [i \in 1..Len(childList) |-> symbolToLegend(childList[i].symbol, childList[i].label)]

scrapeListRenderer(r, childList) ==
    LET push(mapped) ==
            IF Truthy(r.defaultSymbol)
              THEN Append(mapped, symbolToLegend(r.defaultSymbol, JsOr(r.defaultLabel, JsStr(""))))
              ELSE mapped
    IN  push([i \in 1..Len(childList) |-> symbolToLegend(childList[i].symbol, childList[i].label)])

\* rendererToLegend with the blank entry the FIXME of the default case asks for.
rendererToLegendBlankEntry(r, index) ==
    [layers |-> <<[layerId |-> index,
                   legend |-> CASE r.type = SIMPLE -> <<symbolToLegend(r.symbol, r.label)>>
                                [] r.type = UNIQUE_VALUE -> scrapeListRenderer(r, r.uniqueValueInfos)
                                [] r.type = CLASS_BREAKS -> scrapeListRenderer(r, r.classBreakInfos)
                                [] OTHER -> <<symbolToLegend(JsUndef, JsStr("Error!"))>>]>>]

rendererToLegend(r, index) ==
    [layers |-> <<[layerId |-> index,
                   legend |-> CASE r.type = SIMPLE -> <<symbolToLegend(r.symbol, r.label)>>
                                [] r.type = UNIQUE_VALUE -> scrapeListRenderer(r, r.uniqueValueInfos)
                                [] r.type = CLASS_BREAKS -> scrapeListRenderer(r, r.classBreakInfos)
                                [] OTHER -> <<>>]>>]

-----------------------------------------------------------------------------
(* Renderer enhancer *)

dataUrl(legItem) ==
    "data:" \o JsToString(legItem.contentType) \o legItem.base \o "," \o JsToString(legItem.imageData)

\* legendLookup with an item stored only under a label not yet in the lookup.
RECURSIVE legendLookupFirstWins(_, _)
legendLookupFirstWins(items, acc) ==
    IF items = <<>> THEN acc
    ELSE LET key == JsToString(Head(items).label)
             url == dataUrl(Head(items))
         IN  legendLookupFirstWins(Tail(items),
                          [k \in (DOMAIN acc) \cup {key} |-> IF k \in DOMAIN acc THEN acc[k] ELSE url])

\* legendLookup after the forEach over items: a later item overwrites an
\* earlier one stored under the same label.
RECURSIVE legendLookup(_, _)
legendLookup(items, acc) ==
    IF items = <<>> THEN acc
    ELSE LET key == JsToString(Head(items).label)
             url == dataUrl(Head(items))
         IN  legendLookup(Tail(items),
                          [k \in (DOMAIN acc) \cup {key} |-> IF k = key THEN url ELSE acc[k]])

emptyLookup == [k \in {} |-> ""]

\* lookup[label]: undefined for a label the lookup does not hold.
lookupGet(lookup, label) ==
    IF JsToString(label) \in DOMAIN lookup THEN JsStr(lookup[JsToString(label)]) ELSE JsUndef

\* enhanceInfos with the icon written over the entry's symbol.
enhanceInfosOverSymbol(infos, lookup) ==
    [i \in 1..Len(infos) |-> [infos[i] EXCEPT !.symbol = lookupGet(lookup, infos[i].label)]]

enhanceInfos(infos, lookup) ==
    [i \in 1..Len(infos) |-> [infos[i] EXCEPT !.imageUrl = lookupGet(lookup, infos[i].label)]]

enhanceRenderer(r, leg) ==
    LET enhanceDefault(lookup) ==
            IF Truthy(r.defaultLabel)
              THEN [r EXCEPT !.defaultImageUrl = lookupGet(lookup, r.defaultLabel)]
              ELSE r
        switch(lookup) ==
            CASE r.type = SIMPLE -> [r EXCEPT !.imageUrl = lookupGet(lookup, r.label)]
              [] r.type = UNIQUE_VALUE ->
                   [enhanceDefault(lookup) EXCEPT !.uniqueValueInfos = enhanceInfos(@, lookup)]
              [] r.type = CLASS_BREAKS ->
                   [enhanceDefault(lookup) EXCEPT !.classBreakInfos = enhanceInfos(@, lookup)]
              [] OTHER -> r
    IN  switch(legendLookup(leg.layers[1].legend, emptyLookup))

-----------------------------------------------------------------------------
(* Renderer classifier *)

\* Bound of the numbers a numeric string of the model can spell.
MaxNum == 31

NaN == [t |-> "NaN"]

\* ToNumber, the coercion of the relational operators.
ToNumber(v) ==
    CASE v = JsUndef -> NaN
      [] v = JsNull -> JsNum(0)
      [] v.t = "number" -> v
      [] v.t = "string" ->
           IF v.s = "" THEN JsNum(0)
           ELSE IF \E n \in -MaxNum..MaxNum : ToString(n) = v.s
                  THEN JsNum(CHOOSE n \in -MaxNum..MaxNum : ToString(n) = v.s)
                  ELSE NaN

\* a < b, a > b, a <= b on a non-string left or right operand: false when
\* either side converts to NaN.
JsLt(a, b) ==
    LET x == ToNumber(a)
        y == ToNumber(b)
    IN  x # NaN /\ y # NaN /\ x.n < y.n

JsGt(a, b) == JsLt(b, a)

\* a <= b taken as a < b.
JsLeStrict(a, b) ==
    LET x == ToNumber(a)
        y == ToNumber(b)
    IN  x # NaN /\ y # NaN /\ x.n < y.n

JsLe(a, b) ==
    LET x == ToNumber(a)
        y == ToNumber(b)
    IN  x # NaN /\ y # NaN /\ x.n <= y.n

\* attributes[key]: undefined for a property the object does not have.
attrGet(attrs, key) ==
    IF JsToString(key) \in DOMAIN attrs THEN attrs[JsToString(key)] ELSE JsUndef

\* The last, not the first, of the indexes that pass the test.
findLast(passing) ==
    IF passing = {} THEN 0 ELSE CHOOSE i \in passing : \A j \in passing : j <= i

\* Array.prototype.find: the first of the indexes that pass the test, 0 if none.
findFirst(passing) ==
    IF passing = {} THEN 0 ELSE CHOOSE i \in passing : \A j \in passing : i <= j

\* graphicKey of the UNIQUE_VALUE case: Throw when attributes[field1] is null
\* or undefined (graphicKey.toString() on a non-object).
graphicKey(attrs, r) ==
    LET first == attrGet(attrs, r.field1)
    IN  IF first = JsUndef \/ first = JsNull THEN Throw
        ELSE LET k1 == IF first.t # "string" THEN JsToString(first) ELSE first.s
                 k2 == IF Truthy(r.field2)
                         THEN k1 \o ", " \o JsToString(attrGet(attrs, r.field2))
                         ELSE k1
                 k3 == IF Truthy(r.field2) /\ Truthy(r.field3)
                         THEN k2 \o ", " \o JsToString(attrGet(attrs, r.field3))
                         ELSE k2
             IN  Ok(k3)

searchUniqueValue(attrs, r) ==
    LET pick(i) ==
            IF i # 0
              THEN Ok([imageUrl |-> r.uniqueValueInfos[i].imageUrl,
                       symbol |-> r.uniqueValueInfos[i].symbol])
              ELSE Ok([imageUrl |-> r.defaultImageUrl, symbol |-> r.defaultSymbol])
        find(key) ==
            IF ~key.ok THEN Throw
            ELSE pick(findFirst({j \in 1..Len(r.uniqueValueInfos) :
                                    r.uniqueValueInfos[j].value = JsStr(key.v)}))
    IN  find(graphicKey(attrs, r))

\* minSplits with lower, not lower - 1, spliced in.
minSplitsFromLower(r) ==
    <<r.minValue>> \o [i \in 1..Len(r.classBreakInfos) |-> r.classBreakInfos[i].maxValue]

\* minSplits after the splice: lower - 1 followed by every maxValue.
minSplits(r) ==
    <<JsNum(r.minValue.n - 1)>> \o [i \in 1..Len(r.classBreakInfos) |-> r.classBreakInfos[i].maxValue]

searchClassBreaks(attrs, r) ==
    LET gVal == attrGet(attrs, r.field)
        lower == r.minValue
        dflt == [imageUrl |-> r.defaultImageUrl, symbol |-> r.defaultSymbol]
        pick(i) ==
            IF i = 0 THEN Ok(dflt)
            ELSE Ok([imageUrl |-> r.classBreakInfos[i].imageUrl,
                     symbol |-> r.classBreakInfos[i].symbol])
    IN  IF JsLt(gVal, lower) THEN Ok(dflt)
        ELSE pick(findFirst({j \in 1..Len(r.classBreakInfos) :
                                JsGt(gVal, minSplits(r)[j])
                                /\ JsLe(gVal, r.classBreakInfos[j].maxValue)}))

emptyObject == [t |-> "object"]

\* searchRenderer with the default branch of the renderer as the result of
\* an unknown type.
searchRendererUnknownAsDefault(attrs, r) ==
    CASE r.type = SIMPLE -> Ok([imageUrl |-> r.imageUrl, symbol |-> r.symbol])
      [] r.type = UNIQUE_VALUE -> searchUniqueValue(attrs, r)
      [] r.type = CLASS_BREAKS -> searchClassBreaks(attrs, r)
      [] OTHER -> Ok([imageUrl |-> r.defaultImageUrl, symbol |-> r.defaultSymbol])

searchRenderer(attrs, r) ==
    CASE r.type = SIMPLE -> Ok([imageUrl |-> r.imageUrl, symbol |-> r.symbol])
      [] r.type = UNIQUE_VALUE -> searchUniqueValue(attrs, r)
      [] r.type = CLASS_BREAKS -> searchClassBreaks(attrs, r)
      [] OTHER -> Ok([imageUrl |-> JsStr(""), symbol |-> emptyObject])

getGraphicIcon(attrs, r) ==
    LET project(renderInfo) == IF renderInfo.ok THEN Ok(renderInfo.v.imageUrl) ELSE Throw
    IN  project(searchRenderer(attrs, r))

getGraphicSymbol(attrs, r) ==
    LET project(renderInfo) == IF renderInfo.ok THEN Ok(renderInfo.v.symbol) ELSE Throw
    IN  project(searchRenderer(attrs, r))

-----------------------------------------------------------------------------
(* Inputs: symbols, renderers and attributes in server JSON form *)

MaxValues == 2     \* most uniqueValueInfos of a classified renderer
MaxBreaks == 3     \* most classBreakInfos of a classified renderer
MaxEntries == 2    \* most entries of a renderer whose legend is built

SeqsUpTo(S, n) == UNION {[1..k -> S] : k \in 0..n}

Symbol ==
    [type |-> "", style |-> "", color |-> NoColour, size |-> JsUndef, angle |-> JsUndef,
     outline |-> JsUndef, path |-> JsUndef, width |-> JsUndef,
     imageData |-> JsUndef, contentType |-> JsUndef]

lineSymbol(width) ==
    [Symbol EXCEPT !.type = "esriSLS", !.style = "esriSLSSolid",
                   !.color = <<0, 0, 0, 255>>, !.width = width]

markerSymbol(style, size, outline) ==
    [Symbol EXCEPT !.type = "esriSMS", !.style = style, !.size = JsNum(size),
                   !.color = <<255, 0, 0, 128>>, !.outline = outline,
                   !.path = IF style = "esriSMSPath" THEN JsStr("M 0,0 64,64") ELSE JsUndef]

fillSymbol(style, outline) ==
    [Symbol EXCEPT !.type = "esriSFS", !.style = style, !.color = <<0, 255, 0, 255>>,
                   !.outline = outline]

pictureSymbol ==
    [Symbol EXCEPT !.type = "esriPMS", !.imageData = JsStr("iVBORw0KGgo="), !.contentType = JsStr("image/png")]

textSymbol == [Symbol EXCEPT !.type = "esriTS", !.color = <<0, 0, 0, 255>>]

MarkerStyles ==
    {"esriSMSCircle", "esriSMSCross", "esriSMSDiamond", "esriSMSSquare", "esriSMSX",
     "esriSMSTriangle", "esriSMSPath"}

MarkerSizes == {1, 8, 27, 28, 29, 32, 33, 40, 64}

\* Symbols a list renderer's branches draw from.
CoreSymbols ==
    {markerSymbol("esriSMSCircle", 8, lineSymbol(JsNum(1))),
     fillSymbol("esriSFSSolid", lineSymbol(JsNum(2))),
     markerSymbol("esriSMSSquare", 8, JsUndef),
     textSymbol,
     pictureSymbol}

\* Symbols a simple renderer draws from.
AllSymbols ==
    CoreSymbols
    \cup {markerSymbol(st, sz, lineSymbol(JsNum(1))) : st \in MarkerStyles, sz \in MarkerSizes}
    \cup {fillSymbol("esriSFSCross", lineSymbol(JsNum(1))),
          fillSymbol("esriSFSSolid", JsUndef),
          lineSymbol(JsNum(3)),
          lineSymbol(JsUndef),
          [lineSymbol(JsNum(1)) EXCEPT !.type = "esriCLS", !.style = "esriSLSDash"],
          [lineSymbol(JsNum(1)) EXCEPT !.color = <<0, 0, 0>>],
          [lineSymbol(JsNum(1)) EXCEPT !.color = NoColour, !.style = "esriSLSNull"],
          [pictureSymbol EXCEPT !.type = "esriPFS"],
          [Symbol EXCEPT !.type = "esriXYZ"],
          JsUndef}

Renderer ==
    [type |-> "", label |-> JsUndef, symbol |-> JsUndef, imageUrl |-> JsUndef,
     field1 |-> JsUndef, field2 |-> JsUndef, field3 |-> JsUndef, uniqueValueInfos |-> <<>>,
     field |-> JsUndef, minValue |-> JsUndef, classBreakInfos |-> <<>>,
     defaultSymbol |-> JsUndef, defaultLabel |-> JsUndef, defaultImageUrl |-> JsUndef]

\* The optional default branch: absent, or a symbol with or without a label.
Default(symbol, label) == [defaultSymbol |-> symbol, defaultLabel |-> label]

withDefault(r, d) == [r EXCEPT !.defaultSymbol = d.defaultSymbol, !.defaultLabel = d.defaultLabel]

\* Renderers whose branch i has label "L<i>" and a line symbol of width i, so
\* that the branch a classification returns can be told from its symbol.
branchLabel(i) == JsStr("L" \o ToString(i))

UniqueKeys == {"A", "A, B", "A, B, C", "1"}

ClassifyDefaults == {Default(JsUndef, JsUndef), Default(lineSymbol(JsNum(9)), JsStr("other"))}

UniqueValueRenderers ==
    {withDefault([Renderer EXCEPT !.type = UNIQUE_VALUE, !.field1 = JsStr("f1"), !.field2 = f2, !.field3 = f3,
                     !.uniqueValueInfos = [i \in 1..Len(vals) |->
                         [value |-> JsStr(vals[i]), label |-> branchLabel(i),
                          symbol |-> lineSymbol(JsNum(i)), imageUrl |-> JsUndef]]], d) :
        f2 \in {JsUndef, JsStr("f2")}, f3 \in {JsUndef, JsStr("f3")},
        vals \in SeqsUpTo(UniqueKeys, MaxValues), d \in ClassifyDefaults}

BreakValues == {10, 20, 30}

ClassBreaksRenderers ==
    {withDefault([Renderer EXCEPT !.type = CLASS_BREAKS, !.field = JsStr("val"), !.minValue = JsNum(m),
                     !.classBreakInfos = [i \in 1..Len(maxes) |->
                         [maxValue |-> JsNum(maxes[i]), label |-> branchLabel(i),
                          symbol |-> lineSymbol(JsNum(i)), imageUrl |-> JsUndef]]], d) :
        m \in {0, 10}, maxes \in SeqsUpTo(BreakValues, MaxBreaks), d \in ClassifyDefaults}

simpleRenderer(symbol, label) == [Renderer EXCEPT !.type = SIMPLE, !.symbol = symbol, !.label = label]

unknownRenderer == [Renderer EXCEPT !.type = "heatmap"]

ClassifyRenderers ==
    UniqueValueRenderers \cup ClassBreaksRenderers
    \cup {simpleRenderer(lineSymbol(JsNum(1)), JsStr("L1")), unknownRenderer}

\* Renderers whose legend is built: every symbol kind, labels that may repeat.
LegendLabels == {JsStr("a"), JsStr("b")}

LegendDefaults ==
    {Default(JsUndef, JsUndef),
     Default(fillSymbol("esriSFSSolid", lineSymbol(JsNum(1))), JsStr("d")),
     Default(fillSymbol("esriSFSSolid", lineSymbol(JsNum(1))), JsUndef),
     Default(lineSymbol(JsNum(1)), JsStr("a")),
     Default(textSymbol, JsStr("d"))}

LegendBranches == [symbol : CoreSymbols \cup {JsUndef}, label : LegendLabels]

ListRenderers ==
    {withDefault([Renderer EXCEPT !.type = UNIQUE_VALUE, !.field1 = JsStr("f1"),
                     !.uniqueValueInfos = [i \in 1..Len(bs) |->
                         [value |-> JsStr(ToString(i)), label |-> bs[i].label,
                          symbol |-> bs[i].symbol, imageUrl |-> JsUndef]]], d) :
        bs \in SeqsUpTo(LegendBranches, MaxEntries), d \in LegendDefaults}
    \cup
    {withDefault([Renderer EXCEPT !.type = CLASS_BREAKS, !.field = JsStr("val"), !.minValue = JsNum(0),
                     !.classBreakInfos = [i \in 1..Len(bs) |->
                         [maxValue |-> JsNum(10 * i), label |-> bs[i].label,
                          symbol |-> bs[i].symbol, imageUrl |-> JsUndef]]], d) :
        bs \in SeqsUpTo(LegendBranches, MaxEntries), d \in LegendDefaults}

LegendRenderers ==
    ListRenderers \cup {simpleRenderer(s, JsStr("a")) : s \in AllSymbols} \cup {unknownRenderer}

LayerIndexes == {0, 1}

\* The attributes of a feature: the properties with a value.
mkAttrs(f) == [k \in {x \in DOMAIN f : f[x] # JsUndef} |-> f[k]]

UniqueValueAttrs ==
    {mkAttrs([f1 |-> a, f2 |-> b, f3 |-> c]) :
        a \in {JsStr("A"), JsNum(1), JsNull, JsUndef},
        b \in {JsStr("B"), JsStr("C"), JsNull},
        c \in {JsStr("C"), JsUndef}}

ClassBreaksAttrs ==
    {mkAttrs([val |-> v]) :
        v \in {JsNum(n) : n \in {-1, 0, 5, 10, 11, 20, 30, 31}}
              \cup {JsNull, JsUndef, JsStr("A"), JsStr("5")}}

\* The features classified against renderer r.
AttrsFor(r) ==
    CASE r.type = UNIQUE_VALUE -> UniqueValueAttrs
      [] r.type = CLASS_BREAKS -> ClassBreaksAttrs
      [] OTHER -> {mkAttrs([f1 |-> JsStr("A")]), mkAttrs([val |-> JsNum(5)])}

-----------------------------------------------------------------------------
(* The layer-load pipeline and the classification of features *)

\* No layer record is in use.
NoDispatch == [list |-> "none", snapshot |-> <<>>, pos |-> 0, arg |-> "none", called |-> <<>>]
NoOutcome == [call |-> "none", ok |-> TRUE]
RecordIdle ==
    /\ args = JsUndef /\ record = JsUndef /\ rpc = "idle"
    /\ loads = 0 /\ dispatch = NoDispatch /\ outcome = NoOutcome

\* No feature class, child control or identify is in use.
Unused == [pc |-> "unused"]
FeatureIdle ==
    /\ featureCount = Unused /\ formattedAttributes = Unused /\ visibility = Unused
    /\ controls = Unused /\ identify = Unused

LayerIdle == RecordIdle /\ FeatureIdle

NoLegend == [layers |-> <<>>]
NoAttrs == [k \in {} |-> JsUndef]
NoResult == [ok |-> FALSE, pending |-> TRUE]
NoIndex == JsUndef

ZoomLocals == currentLod = 0 /\ lowLod = 0 /\ highLod = 0 /\ found = FALSE /\ zret = NoIndex

ZoomIdle == lods = <<>> /\ maxScale = 0 /\ zpc = "idle" /\ ZoomLocals

RendererInit(pool) ==
    /\ renderer \in pool
    /\ legend = NoLegend
    /\ attributes = NoAttrs
    /\ result = NoResult
    /\ phase = "raw"
    /\ ZoomIdle
    /\ LayerIdle

\* legend = rendererToLegend(renderer, index)
BuildLegend ==
    /\ phase = "raw"
    /\ \E index \in LayerIndexes : legend' = rendererToLegend(renderer, index)
    /\ phase' = "legend"
    /\ UNCHANGED <<renderer, attributes, result>>
    /\ UNCHANGED zoomVars
    /\ UNCHANGED layerVars

\* enhanceRenderer(renderer, legend)
Enhance ==
    /\ phase \in {"legend", "enhanced"}
    /\ renderer' = enhanceRenderer(renderer, legend)
    /\ phase' = "enhanced"
    /\ UNCHANGED <<legend, attributes, result>>
    /\ UNCHANGED zoomVars
    /\ UNCHANGED layerVars

\* Classify with lower - 1 spliced into classBreakInfos itself, not into a copy.
ClassifySplicingInPlace ==
    /\ phase = "enhanced"
    /\ \E attrs \in AttrsFor(renderer) :
          /\ attributes' = attrs
          /\ result' = searchRenderer(attrs, renderer)
    /\ renderer' = IF renderer.type = CLASS_BREAKS
                     THEN [renderer EXCEPT !.classBreakInfos =
                              <<[maxValue |-> JsNum(renderer.minValue.n - 1), label |-> JsUndef,
                                 symbol |-> JsUndef, imageUrl |-> JsUndef]>> \o @]
                     ELSE renderer
    /\ UNCHANGED <<legend, phase>>
    /\ UNCHANGED zoomVars
    /\ UNCHANGED layerVars

\* searchRenderer(attrs, renderer), as getGraphicIcon and getGraphicSymbol call it
\* on an enhanced renderer
Classify ==
    /\ phase = "enhanced"
    /\ \E attrs \in AttrsFor(renderer) :
          /\ attributes' = attrs
          /\ result' = searchRenderer(attrs, renderer)
    /\ UNCHANGED <<renderer, legend, phase>>
    /\ UNCHANGED zoomVars
    /\ UNCHANGED layerVars

LegendInit == RendererInit(LegendRenderers)
LegendNext == BuildLegend \/ Enhance
LegendSpec == LegendInit /\ [][LegendNext]_vars

ClassifyInit == RendererInit(ClassifyRenderers)
ClassifyNext == BuildLegend \/ Enhance \/ Classify
ClassifySpec == ClassifyInit /\ [][ClassifyNext]_vars

-----------------------------------------------------------------------------
(* getZoomLevel *)

MaxLods == 5    \* most levels of a list

ZoomScales == {100 * i : i \in 1..MaxLods}

Max(S) == CHOOSE m \in S : \A x \in S : x <= m

\* The levels of S, by decreasing scale; a level is modelled by its scale.
RECURSIVE Decreasing(_)
Decreasing(S) == IF S = {} THEN <<>> ELSE <<Max(S)>> \o Decreasing(S \ {Max(S)})

ZoomLists == {Decreasing(S) : S \in SUBSET ZoomScales}

ZoomThresholds == {50 * j : j \in 0..(2 * MaxLods + 1)}

RendererIdle ==
    /\ renderer = JsUndef /\ legend = NoLegend /\ attributes = NoAttrs
    /\ result = NoResult /\ phase = "idle"

ZoomInit ==
    /\ lods \in ZoomLists
    /\ maxScale \in ZoomThresholds
    /\ zpc = "start"
    /\ ZoomLocals
    /\ RendererIdle
    /\ LayerIdle

\* ZoomEnter without the maxScale === 0 return.
ZoomEnterNoShortcut ==
    /\ zpc = "start"
    /\ found' = FALSE
    /\ currentLod' = (Len(lods) + 1) \div 2
    /\ lowLod' = 0
    /\ highLod' = Len(lods) - 1
    /\ zpc' = "loop" /\ zret' = zret
    /\ UNCHANGED <<lods, maxScale>>
    /\ UNCHANGED rendererVars
    /\ UNCHANGED layerVars

\* The declarations and the maxScale === 0 return.
ZoomEnter ==
    /\ zpc = "start"
    /\ found' = FALSE
    /\ currentLod' = (Len(lods) + 1) \div 2
    /\ lowLod' = 0
    /\ highLod' = Len(lods) - 1
    /\ IF maxScale = 0
         THEN zpc' = "done" /\ zret' = Len(lods) - 1
         ELSE zpc' = "loop" /\ zret' = zret
    /\ UNCHANGED <<lods, maxScale>>
    /\ UNCHANGED rendererVars
    /\ UNCHANGED layerVars

\* The cursors after the comparison of one iteration.
narrow(lod, low, high) ==
    IF lods[lod + 1] >= maxScale THEN [low |-> lod, high |-> high] ELSE [low |-> low, high |-> lod]

\* One iteration of the while loop; lods[currentLod].scale throws when
\* currentLod is no index of lods.
ZoomIterate ==
    /\ zpc = "loop"
    /\ ~found
    /\ IF currentLod \notin 0..(Len(lods) - 1)
         THEN zpc' = "threw" /\ UNCHANGED <<currentLod, lowLod, highLod, found>>
         ELSE /\ lowLod' = narrow(currentLod, lowLod, highLod).low
              /\ highLod' = narrow(currentLod, lowLod, highLod).high
              /\ currentLod' = (highLod' + lowLod') \div 2
              /\ found' = (highLod' = lowLod' + 1)
              /\ zpc' = zpc
    /\ UNCHANGED <<lods, maxScale, zret>>
    /\ UNCHANGED rendererVars
    /\ UNCHANGED layerVars

\* The loop exit and the return of currentLod.
ZoomReturn ==
    /\ zpc = "loop"
    /\ found
    /\ zret' = currentLod
    /\ zpc' = "done"
    /\ UNCHANGED <<lods, maxScale, currentLod, lowLod, highLod, found>>
    /\ UNCHANGED rendererVars
    /\ UNCHANGED layerVars

ZoomNext == ZoomEnter \/ ZoomIterate \/ ZoomReturn
ZoomSpec == ZoomInit /\ [][ZoomNext]_vars

\* getZoomLevel is synchronous: an iteration that can run does run.
ZoomFairSpec == ZoomSpec /\ WF_vars(ZoomNext)

-----------------------------------------------------------------------------
(* Layer records: construction, layer events, listeners *)

states ==
    [NEW |-> "rv-new", REFRESH |-> "rv-refresh", LOADING |-> "rv-loading",
     LOADED |-> "rv-loaded", DEFAULT |-> "rv-default", ERROR |-> "rv-error"]

RecordClasses == {"ImageRecord", "TileRecord", "WmsRecord", "FeatureRecord", "DynamicRecord"}

MaxListeners == 3    \* most listeners registered on a record, state and hover together
MaxLoads == 1        \* most promises of one kind a record waits for at a time

Listeners == {"f", "g"}

\* How a call ended.
Returned(call) == [call |-> call, ok |-> TRUE]
Thrown(call, message) == [call |-> call, ok |-> FALSE, message |-> message]

\* How a call about one listener ended.
About(o, listenerCallback) ==
    [call |-> o.call, ok |-> o.ok, message |-> IF o.ok THEN "" ELSE o.message,
     listener |-> listenerCallback]

\* The layer objects: a pre-made one, or the one layerClass builds.
PremadeLayer == [made |-> "by the caller"]
ConstructedLayer == [made |-> "by constructLayer"]

\* this, after the assignments of the LayerRecord constructor that come before
\* the esriLayer test.  The field the subclass's layerClass getter reads is
\* assigned by the subclass constructor after super() returns, so it is
\* undefined here.  bound counts the wrapEvents calls on the layer, removed is
\* legendEntry.removed, tips the pending tipLoaded bundles.
newRecord(a) ==
    [class |-> a.class, layerClassField |-> JsUndef, _epsgLookup |-> a.epsgLookup,
     _stateListeners |-> <<>>, _hoverListeners |-> <<>>,
     _layer |-> JsUndef, _state |-> "", premade |-> FALSE, bound |-> 0,
     removed |-> FALSE, tips |-> 0]

\* get layerClass () { return this.<field of the class>; }
layerClass(rec) == rec.layerClassField

bindEvents(rec) == [rec EXCEPT !.bound = @ + 1]

\* constructLayer: the method of the class, or the throwing one the
\* constructor puts on a record made from a pre-made layer.  Calling an
\* undefined layerClass is a TypeError.
constructLayer(rec) ==
    IF rec.premade THEN Thrown("constructLayer", "Cannot construct pre-made layers")
    ELSE IF layerClass(rec) = JsUndef THEN Thrown("constructLayer", "TypeError")
    ELSE [call |-> "constructLayer", ok |-> TRUE,
          v |-> bindEvents([rec EXCEPT !._layer = ConstructedLayer])]

\* The LayerRecord constructor from the esriLayer test on.
LayerRecord(a) ==
    LET start(made) ==
            IF made.ok THEN [call |-> "constructor", ok |-> TRUE,
                             v |-> [made.v EXCEPT !._state = states.LOADING]]
            ELSE Thrown("constructor", made.message)
    IN  IF a.esriLayer
          THEN [call |-> "constructor", ok |-> TRUE,
                v |-> [bindEvents([newRecord(a) EXCEPT !.premade = TRUE, !._layer = PremadeLayer])
                          EXCEPT !._state = states.LOADED]]
          ELSE start(constructLayer(newRecord(a)))

\* The constructor of a record class: super(...), then the assignment of the
\* layer class field.
SubRecord(a) ==
    LET finish(made) ==
            IF made.ok THEN [made EXCEPT !.v.layerClassField = a.layerClass] ELSE made
    IN  finish(LayerRecord(a))

\* Array.prototype.indexOf: the 0-based index of the first x, -1 when absent.
indexOf(arr, x) ==
    IF \E i \in 1..Len(arr) : arr[i] = x
      THEN (CHOOSE i \in 1..Len(arr) : arr[i] = x /\ \A j \in 1..(i - 1) : arr[j] # x) - 1
      ELSE -1

\* arr after arr.splice(idx, 1)
splice(arr, idx) == SubSeq(arr, 1, idx) \o SubSeq(arr, idx + 2, Len(arr))

\* A dispatch walking the live array instead of a copy.
handlersLive(d, live) == live

\* The array forEach walks in _fireEvent: the copy slice(0) made when the
\* dispatch began, whatever the live array has become.
handlers(d, live) == d.snapshot

\* _fireEvent(handlerArray, eventParam) before its first callback.
_fireEvent(list, handlerArray, eventParam) ==
    [list |-> list, snapshot |-> handlerArray, pos |-> 0, arg |-> eventParam, called |-> <<>>]

\* A dispatch is running while forEach has an element left to visit: an index
\* below the length at the start that the walked array still has.  The record
\* of a finished dispatch stays until the next event or call.
Live(rec, list) == IF list = "state" THEN rec._stateListeners ELSE rec._hoverListeners

Running ==
    /\ dispatch.list # "none"
    /\ dispatch.pos < Len(dispatch.snapshot)
    /\ dispatch.pos < Len(handlers(dispatch, Live(record, dispatch.list)))

SetLive(rec, list, arr) ==
    IF list = "state" THEN [rec EXCEPT !._stateListeners = arr] ELSE [rec EXCEPT !._hoverListeners = arr]

Registered(rec) == Len(rec._stateListeners) + Len(rec._hoverListeners)

Ready == rpc = "ready" /\ ~Running

\* new XRecord(layerClass, ..., config, esriLayer, epsgLookup)
Construct ==
    /\ rpc = "new"
    /\ IF SubRecord(args).ok
         THEN record' = SubRecord(args).v /\ rpc' = "ready" /\ outcome' = Returned("constructor")
         ELSE record' = record /\ rpc' = "threw" /\ outcome' = SubRecord(args)
    /\ UNCHANGED <<args, loads, dispatch>>
    /\ UNCHANGED <<symbologyVars, featureVars>>

\* record.constructLayer() called by the client
ConstructLayerCall ==
    /\ Ready
    /\ IF constructLayer(record).ok
         THEN record' = constructLayer(record).v /\ outcome' = Returned("constructLayer")
         ELSE record' = record /\ outcome' = constructLayer(record)
    /\ dispatch' = NoDispatch
    /\ UNCHANGED <<args, rpc, loads>>
    /\ UNCHANGED <<symbologyVars, featureVars>>

\* A _stateChange that tells the listeners before it assigns.
_stateChangeBeforeAssign(newState) ==
    /\ dispatch' = _fireEvent("state", record._stateListeners, record._state)
    /\ record' = [record EXCEPT !._state = newState]

\* _stateChange(newState): the assignment and the start of the dispatch.
_stateChange(newState) ==
    /\ record' = [record EXCEPT !._state = newState]
    /\ dispatch' = _fireEvent("state", record'._stateListeners, record'._state)

\* The layer's error event: onError
OnError ==
    /\ Ready
    /\ _stateChange(states.ERROR)
    /\ outcome' = Returned("onError")
    /\ UNCHANGED <<args, rpc, loads>>
    /\ UNCHANGED <<symbologyVars, featureVars>>

\* The layer's update-start event: onUpdateStart
OnUpdateStart ==
    /\ Ready
    /\ _stateChange(states.REFRESH)
    /\ outcome' = Returned("onUpdateStart")
    /\ UNCHANGED <<args, rpc, loads>>
    /\ UNCHANGED <<symbologyVars, featureVars>>

\* The layer's update-end event: onUpdateEnd
OnUpdateEnd ==
    /\ Ready
    /\ _stateChange(states.LOADED)
    /\ outcome' = Returned("onUpdateEnd")
    /\ UNCHANGED <<args, rpc, loads>>
    /\ UNCHANGED <<symbologyVars, featureVars>>

\* The layer's load event: onLoad.  checkProj gives a lookup promise only to a
\* record with an epsgLookup; without one the then-callback of the resolved
\* promise runs before any other event.
OnLoad ==
    /\ Ready
    /\ outcome' = Returned("onLoad")
    /\ IF record.removed
         THEN dispatch' = NoDispatch /\ UNCHANGED <<record, loads>>
         ELSE \E lookup \in (IF record._epsgLookup THEN BOOLEAN ELSE {FALSE}) :
                 IF lookup
                   THEN /\ loads < MaxLoads /\ loads' = loads + 1
                        /\ dispatch' = NoDispatch /\ record' = record
                   ELSE _stateChange(states.LOADED) /\ loads' = loads
    /\ UNCHANGED <<args, rpc>>
    /\ UNCHANGED <<symbologyVars, featureVars>>

\* lookupPromise resolved: the then-callback of onLoad
LookupResolved ==
    /\ Ready /\ loads > 0
    /\ loads' = loads - 1
    /\ _stateChange(states.LOADED)
    /\ outcome' = Returned("lookupPromise.then")
    /\ UNCHANGED <<args, rpc>>
    /\ UNCHANGED <<symbologyVars, featureVars>>

\* lookupPromise rejected: onLoad attached no rejection handler
LookupRejected ==
    /\ Ready /\ loads > 0
    /\ loads' = loads - 1
    /\ outcome' = Returned("lookupPromise rejected")
    /\ dispatch' = NoDispatch
    /\ UNCHANGED <<args, record, rpc>>
    /\ UNCHANGED <<symbologyVars, featureVars>>

\* The client marks the legend entry of the record as removed.
RemoveLegendEntry ==
    /\ Ready /\ ~record.removed
    /\ record' = [record EXCEPT !.removed = TRUE]
    /\ outcome' = Returned("legendEntry.removed = true")
    /\ dispatch' = NoDispatch
    /\ UNCHANGED <<args, rpc, loads>>
    /\ UNCHANGED <<symbologyVars, featureVars>>

NotRegistered == "Attempting to remove a listener which is not registered."

addStateListener(rec, listenerCallback) ==
    [rec EXCEPT !._stateListeners = Append(@, listenerCallback)]

\* A removal that takes the newest registration of the callback.
removeStateListenerNewest(rec, listenerCallback) ==
    LET newest == {i \in 1..Len(rec._stateListeners) : rec._stateListeners[i] = listenerCallback}
    IN  IF newest = {} THEN Thrown("removeStateListener", NotRegistered)
        ELSE [call |-> "removeStateListener", ok |-> TRUE,
              v |-> [rec EXCEPT !._stateListeners =
                        splice(@, (CHOOSE i \in newest : \A j \in newest : j <= i) - 1)]]

removeStateListener(rec, listenerCallback) ==
    LET remove(idx) ==
            IF idx < 0 THEN Thrown("removeStateListener", NotRegistered)
            ELSE [call |-> "removeStateListener", ok |-> TRUE,
                  v |-> [rec EXCEPT !._stateListeners = splice(@, idx)]]
    IN  remove(indexOf(rec._stateListeners, listenerCallback))

addHoverListener(rec, listenerCallback) ==
    [rec EXCEPT !._hoverListeners = Append(@, listenerCallback)]

removeHoverListener(rec, listenerCallback) ==
    LET remove(idx) ==
            IF idx < 0 THEN Thrown("removeHoverListener", NotRegistered)
            ELSE [call |-> "removeHoverListener", ok |-> TRUE,
                  v |-> [rec EXCEPT !._hoverListeners = splice(@, idx)]]
    IN  remove(indexOf(rec._hoverListeners, listenerCallback))

\* record.addStateListener(l) called by the client
AddStateListener ==
    /\ Ready /\ Registered(record) < MaxListeners
    /\ \E l \in Listeners :
          /\ record' = addStateListener(record, l)
          /\ outcome' = About(Returned("addStateListener"), l)
    /\ dispatch' = NoDispatch
    /\ UNCHANGED <<args, rpc, loads>>
    /\ UNCHANGED <<symbologyVars, featureVars>>

\* record.removeStateListener(l) called by the client
RemoveStateListener ==
    /\ Ready
    /\ \E l \in Listeners :
          /\ outcome' = About(removeStateListener(record, l), l)
          /\ record' = IF removeStateListener(record, l).ok
                          THEN removeStateListener(record, l).v ELSE record
    /\ dispatch' = NoDispatch
    /\ UNCHANGED <<args, rpc, loads>>
    /\ UNCHANGED <<symbologyVars, featureVars>>

\* record.addHoverListener(l) called by the client
AddHoverListener ==
    /\ Ready /\ Registered(record) < MaxListeners
    /\ \E l \in Listeners :
          /\ record' = addHoverListener(record, l)
          /\ outcome' = About(Returned("addHoverListener"), l)
    /\ dispatch' = NoDispatch
    /\ UNCHANGED <<args, rpc, loads>>
    /\ UNCHANGED <<symbologyVars, featureVars>>

\* record.removeHoverListener(l) called by the client
RemoveHoverListener ==
    /\ Ready
    /\ \E l \in Listeners :
          /\ outcome' = About(removeHoverListener(record, l), l)
          /\ record' = IF removeHoverListener(record, l).ok
                          THEN removeHoverListener(record, l).v ELSE record
    /\ dispatch' = NoDispatch
    /\ UNCHANGED <<args, rpc, loads>>
    /\ UNCHANGED <<symbologyVars, featureVars>>

\* What a listener does to the list it is called from while it runs: nothing,
\* the registration of a listener, or the removal of a registered one.
ListenerDoes(rec, list) ==
    {rec}
    \cup {IF list = "state" THEN addStateListener(rec, l) ELSE addHoverListener(rec, l) :
             l \in {x \in Listeners : Registered(rec) < MaxListeners}}
    \cup {IF list = "state" THEN removeStateListener(rec, l).v ELSE removeHoverListener(rec, l).v :
             l \in {x \in Listeners : indexOf(Live(rec, list), x) >= 0}}

\* One step of the forEach of _fireEvent: the call of the next listener.
CallListener ==
    /\ rpc = "ready" /\ Running
    /\ dispatch' = [dispatch EXCEPT
                       !.pos = @ + 1,
                       !.called = Append(@, handlers(dispatch, Live(record, dispatch.list))[dispatch.pos + 1])]
    /\ record' \in ListenerDoes(record, dispatch.list)
    /\ UNCHANGED <<args, rpc, loads, outcome>>
    /\ UNCHANGED <<symbologyVars, featureVars>>

\* The layer's mouse-over event: onMouseOver.  Only FeatureRecord overrides
\* the empty method; it tells the hover listeners, if any, and asks for the
\* data of the tip.
OnMouseOver ==
    /\ Ready
    /\ outcome' = Returned("onMouseOver")
    /\ IF record.class = "FeatureRecord" /\ Len(record._hoverListeners) > 0
         THEN /\ record.tips < MaxLoads
              /\ record' = [record EXCEPT !.tips = @ + 1]
              /\ dispatch' = _fireEvent("hover", record._hoverListeners, "mouseOver")
         ELSE dispatch' = NoDispatch /\ record' = record
    /\ UNCHANGED <<args, rpc, loads>>
    /\ UNCHANGED <<symbologyVars, featureVars>>

\* The then-callback of the tip's data: the tipLoaded bundle.
TipLoaded ==
    /\ Ready /\ record.tips > 0
    /\ record' = [record EXCEPT !.tips = @ - 1]
    /\ dispatch' = _fireEvent("hover", record._hoverListeners, "tipLoaded")
    /\ outcome' = Returned("tipLoaded")
    /\ UNCHANGED <<args, rpc, loads>>
    /\ UNCHANGED <<symbologyVars, featureVars>>

\* The layer's mouse-out event: onMouseOut
OnMouseOut ==
    /\ Ready
    /\ outcome' = Returned("onMouseOut")
    /\ IF record.class = "FeatureRecord"
         THEN dispatch' = _fireEvent("hover", record._hoverListeners, "mouseOut")
         ELSE dispatch' = NoDispatch
    /\ UNCHANGED <<args, record, rpc, loads>>
    /\ UNCHANGED <<symbologyVars, featureVars>>

\* The ESRI layer class handed to the constructor of a record class.
EsriLayerClass(class) == [esri |-> class]

RecordArgs ==
    {[class |-> c, layerClass |-> EsriLayerClass(c), esriLayer |-> e, epsgLookup |-> l] :
        c \in RecordClasses, e \in BOOLEAN, l \in BOOLEAN}

RecordInit ==
    /\ args \in RecordArgs
    /\ record = JsUndef
    /\ rpc = "new"
    /\ loads = 0
    /\ dispatch = NoDispatch
    /\ outcome = NoOutcome
    /\ FeatureIdle
    /\ RendererIdle
    /\ ZoomIdle

\* A record from its construction on, through the events of its layer.
RecordNext ==
    \/ Construct \/ ConstructLayerCall
    \/ OnLoad \/ LookupResolved \/ LookupRejected \/ OnError \/ OnUpdateStart \/ OnUpdateEnd
    \/ RemoveLegendEntry
    \/ AddStateListener \/ CallListener

RecordSpec == RecordInit /\ [][RecordNext]_vars

\* A feature record made from a pre-made layer, its listeners and the events
\* that call them.
ListenerInit ==
    /\ args \in {a \in RecordArgs : a.class = "FeatureRecord" /\ a.esriLayer /\ ~a.epsgLookup}
    /\ record = SubRecord(args).v
    /\ rpc = "ready"
    /\ loads = 0
    /\ dispatch = NoDispatch
    /\ outcome = Returned("constructor")
    /\ FeatureIdle
    /\ RendererIdle
    /\ ZoomIdle

ListenerNext ==
    \/ AddStateListener \/ RemoveStateListener \/ AddHoverListener \/ RemoveHoverListener
    \/ OnError \/ OnUpdateEnd \/ OnMouseOver \/ TipLoaded \/ OnMouseOut
    \/ CallListener

ListenerSpec == ListenerInit /\ [][ListenerNext]_vars

-----------------------------------------------------------------------------
(* AttrRecord.getFeatureCount *)

MaxGraphics == 2    \* most graphics of a file layer, and the largest count a service reports

\* What the service sends back for a count request: nothing, or an object
\* with or without an error and a count.
ServiceResults ==
    {JsNull} \cup
    {[error |-> e, count |-> c] :
        e \in {JsUndef, JsStr("failed")}, c \in {JsUndef} \cup {JsNum(n) : n \in 0..MaxGraphics}}

\* How the request promise defService settles.
Replies ==
    {[settled |-> "rejected"]} \cup
    {[settled |-> "resolved", serviceResult |-> r] : r \in ServiceResults}

\* A test of the count by its truth value.
gotRowCountTruthy(serviceResult) ==
    /\ Truthy(serviceResult)
    /\ serviceResult.error = JsUndef
    /\ Truthy(serviceResult.count)

\* serviceResult && typeof serviceResult.error === 'undefined' &&
\* typeof serviceResult.count !== 'undefined'
gotRowCount(serviceResult) ==
    /\ Truthy(serviceResult)
    /\ serviceResult.error = JsUndef
    /\ serviceResult.count # JsUndef

\* esriServerCount(layerUrl, finalTry): one more request is sent.
esriServerCount(fc, finalTry) ==
    [fc EXCEPT !.requests = @ + 1, !.finalTry = finalTry, !.pc = "waiting"]

resolve(fc, value) ==
    [fc EXCEPT !.promise = [state |-> "resolved", value |-> value], !.pc = "done"]

reject(fc, reason) ==
    [fc EXCEPT !.promise = [state |-> "rejected", value |-> JsStr(reason)], !.pc = "done"]

\* getFeatureCount(url) up to its return
getFeatureCount(fc) ==
    IF Truthy(fc.url)
      THEN esriServerCount([fc EXCEPT !.promise = [state |-> "pending", value |-> JsUndef]], FALSE)
      ELSE resolve(fc, JsNum(fc.graphics))

\* The two callbacks of defService.then
serviceReplied(fc, reply) ==
    LET heard == [fc EXCEPT !.replies = Append(@, reply)]
    IN  IF reply.settled = "resolved" /\ gotRowCount(reply.serviceResult)
          THEN resolve(heard, reply.serviceResult.count)
        ELSE IF ~fc.finalTry THEN esriServerCount(heard, TRUE)
        ELSE reject(heard, "error getting feature count")

countOthers == <<symbologyVars, recordVars, formattedAttributes, visibility, controls, identify>>

GetFeatureCount ==
    /\ featureCount.pc = "made"
    /\ featureCount' = getFeatureCount(featureCount)
    /\ UNCHANGED countOthers

ServiceReplies ==
    /\ featureCount.pc = "waiting"
    /\ \E reply \in Replies : featureCount' = serviceReplied(featureCount, reply)
    /\ UNCHANGED countOthers

\* A record with attributes and the url its count is asked with: none or an
\* empty one for a file layer with its local graphics.
CountInit ==
    /\ featureCount \in
          {[pc |-> "made", url |-> u, graphics |-> g, requests |-> 0, finalTry |-> FALSE,
            replies |-> <<>>, promise |-> [state |-> "none", value |-> JsUndef]] :
              u \in {JsUndef, JsStr(""), JsStr("http://service/0")}, g \in 0..MaxGraphics}
    /\ formattedAttributes = Unused /\ visibility = Unused
    /\ controls = Unused /\ identify = Unused
    /\ RecordIdle
    /\ RendererIdle
    /\ ZoomIdle

CountNext == GetFeatureCount \/ ServiceReplies

CountSpec == CountInit /\ [][CountNext]_vars

-----------------------------------------------------------------------------
(* AttribFC.getFormattedAttributes *)

MaxChains == 3    \* most promises getFormattedAttributes builds in a run

\* The promise chain of one load: the promise getAttribs() gave it and the
\* promise that Promise.all(...).then(...).catch(...) made of it.
NewChain == [attribs |-> "pending", promise |-> "pending"]

\* A catch callback that leaves the cached promise in place.
caughtKeepingCache(fa, c) ==
    [fa EXCEPT !.chains[c].promise = "rejected", !.message = "Attrib loading failed"]

\* .catch(() => { delete this._formattedAttributes; throw new Error(...) })
caught(fa, c) ==
    [fa EXCEPT !.cache = 0, !.chains[c].promise = "rejected", !.message = "Attrib loading failed"]

\* getFormattedAttributes(): the cached promise, or a new chain on
\* Promise.all([this.getAttribs(), this.getLayerData()]).
getFormattedAttributes(fa) ==
    IF fa.cache # 0 THEN [fa EXCEPT !.returned = fa.cache]
    ELSE [fa EXCEPT !.chains = Append(@, NewChain),
                    !.cache = Len(fa.chains) + 1,
                    !.returned = Len(fa.chains) + 1]

\* Promise.all has settled for chain c: one of its promises rejected, or
\* both resolved.
allSettled(fa, c) ==
    \/ fa.chains[c].attribs = "rejected"
    \/ fa.layerData = "rejected"
    \/ fa.chains[c].attribs \in {"loaded", "unusable"} /\ fa.layerData = "loaded"

\* The callbacks of chain c run: then formats the data it was given, and
\* catch takes a rejection or what then threw on data it cannot read.
reacted(fa, c) ==
    IF fa.chains[c].attribs = "loaded" /\ fa.layerData = "loaded"
      THEN [fa EXCEPT !.chains[c].promise = "resolved"]
      ELSE caught(fa, c)

attribOthers == <<symbologyVars, recordVars, featureCount, visibility, controls, identify>>

GetFormattedAttributes ==
    /\ formattedAttributes.pc = "made"
    /\ formattedAttributes.cache = 0 => Len(formattedAttributes.chains) < MaxChains
    /\ formattedAttributes' = getFormattedAttributes(formattedAttributes)
    /\ UNCHANGED attribOthers

\* The promise of layerPackage.getAttribs() settles.
AttribsSettle ==
    /\ formattedAttributes.pc = "made"
    /\ \E c \in 1..Len(formattedAttributes.chains), how \in {"loaded", "unusable", "rejected"} :
          /\ formattedAttributes.chains[c].attribs = "pending"
          /\ formattedAttributes' = [formattedAttributes EXCEPT !.chains[c].attribs = how]
    /\ UNCHANGED attribOthers

\* The promise layerPackage.layerData settles.
LayerDataSettles ==
    /\ formattedAttributes.pc = "made"
    /\ formattedAttributes.layerData = "pending"
    /\ \E how \in {"loaded", "rejected"} :
          formattedAttributes' = [formattedAttributes EXCEPT !.layerData = how]
    /\ UNCHANGED attribOthers

ChainReacts ==
    /\ formattedAttributes.pc = "made"
    /\ \E c \in 1..Len(formattedAttributes.chains) :
          /\ formattedAttributes.chains[c].promise = "pending"
          /\ allSettled(formattedAttributes, c)
          /\ formattedAttributes' = reacted(formattedAttributes, c)
    /\ UNCHANGED attribOthers

\* A feature class as constructed: nothing cached, the layer data of its
\* package pending.
AttribInit ==
    /\ formattedAttributes =
          [pc |-> "made", cache |-> 0, chains |-> <<>>, layerData |-> "pending", returned |-> 0,
           message |-> ""]
    /\ featureCount = Unused /\ visibility = Unused
    /\ controls = Unused /\ identify = Unused
    /\ RecordIdle
    /\ RendererIdle
    /\ ZoomIdle

AttribNext == GetFormattedAttributes \/ AttribsSettle \/ LayerDataSettles \/ ChainReacts

AttribSpec == AttribInit /\ [][AttribNext]_vars

-----------------------------------------------------------------------------
(* DynamicFC.setVisibility and getVisibility *)

MaxIdx == 1      \* the largest service index of a child
MaxGiven == 2    \* most entries of visibleLayers when the children are made

\* The _idx of the children: integers in string format.
Digits == <<"0", "1", "2", "3", "4", "5", "6", "7", "8", "9">>
ChildIdx == {Digits[n + 1] : n \in 0..MaxIdx}

\* parseInt on a string of one digit
parseInt(str) == CHOOSE n \in 0..9 : Digits[n + 1] = str

\* A setVisibility that pushes and splices without looking at the index found.
setVisibilityUnchecked(parent, idx, val) ==
    IF ~parent.defined THEN Thrown("setVisibility", "TypeError")
    ELSE [call |-> "setVisibility", ok |-> TRUE,
          v |-> IF val
                  THEN [parent EXCEPT !.visibleLayers = Append(@, parseInt(idx))]
                  ELSE [parent EXCEPT !.visibleLayers =
                           splice(@, indexOf(parent.visibleLayers, parseInt(idx)))]]

\* setVisibility(val) of the child idx; v is the parent afterwards.  A parent
\* without visibleLayers makes vLayers.indexOf a TypeError.
setVisibility(parent, idx, val) ==
    LET update(vIdx) ==
            IF val /\ vIdx = -1
              THEN [parent EXCEPT !.visibleLayers = Append(@, parseInt(idx))]
            ELSE IF ~val /\ vIdx > -1
              THEN [parent EXCEPT !.visibleLayers = splice(@, vIdx)]
            ELSE parent
    IN  IF ~parent.defined THEN Thrown("setVisibility", "TypeError")
        ELSE [call |-> "setVisibility", ok |-> TRUE,
              v |-> update(indexOf(parent.visibleLayers, parseInt(idx)))]

\* getVisibility() of the child idx
getVisibility(parent, idx) ==
    IF ~parent.defined THEN Thrown("getVisibility", "TypeError")
    ELSE [call |-> "getVisibility", ok |-> TRUE,
          v |-> indexOf(parent.visibleLayers, parseInt(idx)) > -1]

visibilityOthers == <<symbologyVars, recordVars, featureCount, formattedAttributes, controls, identify>>

SetVisibility ==
    /\ visibility.pc = "made"
    /\ \E idx \in ChildIdx, val \in BOOLEAN :
          visibility' =
              IF setVisibility(visibility.parent, idx, val).ok
                THEN [visibility EXCEPT
                         !.parent = setVisibility(visibility.parent, idx, val).v,
                         !.last[idx] = IF val THEN "shown" ELSE "hidden",
                         !.call = [method |-> "setVisibility", idx |-> idx, val |-> val, ok |-> TRUE]]
                ELSE [visibility EXCEPT
                         !.call = [method |-> "setVisibility", idx |-> idx, val |-> val, ok |-> FALSE]]
    /\ UNCHANGED visibilityOthers

GetVisibility ==
    /\ visibility.pc = "made"
    /\ \E idx \in ChildIdx :
          visibility' =
              [visibility EXCEPT
                  !.call = IF getVisibility(visibility.parent, idx).ok
                             THEN [method |-> "getVisibility", idx |-> idx,
                                   val |-> getVisibility(visibility.parent, idx).v, ok |-> TRUE]
                             ELSE [method |-> "getVisibility", idx |-> idx, val |-> FALSE, ok |-> FALSE]]
    /\ UNCHANGED visibilityOthers

RECURSIVE ListsUpTo(_, _)
ListsUpTo(S, n) ==
    IF n = 0 THEN {<<>>}
    ELSE ListsUpTo(S, n - 1) \cup {Append(l, x) : l \in ListsUpTo(S, n - 1), x \in S}

\* The children of a parent: one with the visibleLayers the layer was given
\* (-1 is the entry of a layer that shows nothing), or one that has no
\* visibleLayers, which is what a DynamicRecord is.
VisibilityInit ==
    /\ visibility \in
          {[pc |-> "made", parent |-> [defined |-> TRUE, visibleLayers |-> l], given |-> l,
            last |-> [i \in ChildIdx |-> "unset"], call |-> [method |-> "none"]] :
              l \in ListsUpTo({-1} \cup {parseInt(i) : i \in ChildIdx}, MaxGiven)}
          \cup
          {[pc |-> "made", parent |-> [defined |-> FALSE, visibleLayers |-> <<>>], given |-> <<>>,
            last |-> [i \in ChildIdx |-> "unset"], call |-> [method |-> "none"]]}
    /\ featureCount = Unused /\ formattedAttributes = Unused
    /\ controls = Unused /\ identify = Unused
    /\ RecordIdle
    /\ RendererIdle
    /\ ZoomIdle

VisibilityNext == SetVisibility \/ GetVisibility

VisibilitySpec == VisibilityInit /\ [][VisibilityNext]_vars

-----------------------------------------------------------------------------
(* DynamicRecord: the child controls *)

MaxLayerInfos == 3    \* the sublayers of the dynamic layer given to the record

\* Number.prototype.toString.call(n) for one digit
toString(n) == Digits[n + 1]

\* The property key that a function object is turned into: its source text.
FunctionText == "function toString() { [native code] }"

\* obj[key] = value on an object kept as a function of its keys
Put(obj, key, value) ==
    [k \in (DOMAIN obj) \cup {key} |-> IF k = key THEN value ELSE obj[k]]

EmptyObject == [k \in {} |-> JsUndef]

\* processLayerInfo(layerInfo) of the constructor, on the layerInfo at index
\* i: the controls registered so far become ctrl, and leaves is the array
\* returned.  processKids is the forEach over subLayerIds.
RECURSIVE processLayerInfo(_, _, _)
RECURSIVE processKids(_, _, _, _)
processKids(ctrl, layerInfos, subLayerIds, _childLeafs) ==
    LET next(done) ==
            processKids(done.ctrl, layerInfos, Tail(subLayerIds), _childLeafs \o done.leaves)
    IN  IF subLayerIds = <<>> THEN [ctrl |-> ctrl, leaves |-> _childLeafs]
        ELSE next(processLayerInfo(ctrl, layerInfos, Head(subLayerIds)))

processLayerInfo(ctrl, layerInfos, i) ==
    LET layerInfo == layerInfos[i + 1]
        group(done) ==
            [ctrl |-> Put(done.ctrl, toString(layerInfo.id),
                          [kind |-> "group", id |-> layerInfo.id, _childLeafs |-> done.leaves]),
             leaves |-> done.leaves]
    IN  IF Len(layerInfo.subLayerIds) > 0
          THEN group(processKids(Put(ctrl, toString(layerInfo.id),
                                     [kind |-> "group", id |-> layerInfo.id, _childLeafs |-> <<>>]),
                                 layerInfos, layerInfo.subLayerIds, <<>>))
          ELSE [ctrl |-> Put(ctrl, toString(layerInfo.id), [kind |-> "leaf", id |-> layerInfo.id]),
                leaves |-> <<layerInfo.id>>]

\* config.layerEntries.forEach(le => processLayerInfo(esriLayer.layerInfos[le.index]))
RECURSIVE processEntries(_, _, _)
processEntries(ctrl, layerInfos, layerEntries) ==
    IF layerEntries = <<>> THEN ctrl
    ELSE processEntries(processLayerInfo(ctrl, layerInfos, Head(layerEntries)).ctrl,
                        layerInfos, Tail(layerEntries))

\* new DynamicRecord(...): super(...), which throws without a pre-made
\* layer, then the controls of the entries of the config.
DynamicRecord(c) ==
    LET made == SubRecord([class |-> "DynamicRecord", layerClass |-> EsriLayerClass("DynamicRecord"),
                           esriLayer |-> c.esriLayer, epsgLookup |-> FALSE])
    IN  IF ~made.ok THEN [c EXCEPT !.pc = "threw"]
        ELSE [c EXCEPT !.pc = "ready",
                       !._controls = IF Truthy(c.layerEntries) /\ c.esriLayer
                                       THEN processEntries(EmptyObject, c.layerInfos, c.layerEntries.a)
                                       ELSE EmptyObject]

\* getChildControl(featureIdx): the key is featureIdx.toString, the method
\* itself and not what it returns.
getChildControl(c, featureIdx) ==
    IF FunctionText \in DOMAIN c._controls
      THEN [call |-> "getChildControl", ok |-> TRUE, v |-> c._controls[FunctionText]]
      ELSE Thrown("getChildControl", "attempt to get non-existing child control")

controlOthers == <<symbologyVars, recordVars, featureCount, formattedAttributes, visibility, identify>>

ConstructDynamic ==
    /\ controls.pc = "new"
    /\ controls' = DynamicRecord(controls)
    /\ UNCHANGED controlOthers

GetChildControl ==
    /\ controls.pc = "ready"
    /\ \E featureIdx \in 0..(MaxLayerInfos - 1) :
          controls' = [controls EXCEPT !.featureIdx = featureIdx,
                                       !.got = getChildControl(controls, featureIdx)]
    /\ UNCHANGED controlOthers

\* The members of a set of indexes in ascending order
RECURSIVE Ascending(_)
Ascending(S) ==
    LET least == CHOOSE x \in S : \A y \in S : x <= y
    IN  IF S = {} THEN <<>> ELSE <<least>> \o Ascending(S \ {least})

\* The layerInfos of a service: the layer at index i has id i, and its
\* subLayerIds are the layers that name it as their parent.
LayerInfoLists ==
    {[i \in 1..MaxLayerInfos |->
        [id |-> i - 1,
         subLayerIds |-> Ascending({j \in 0..(MaxLayerInfos - 1) : parentOf[j + 1] = i - 1})]] :
     parentOf \in {f \in [1..MaxLayerInfos -> -1..(MaxLayerInfos - 2)] :
                      \A j \in 1..MaxLayerInfos : f[j] < j - 1}}

\* config.layerEntries: none, or the indexes of some layers.
LayerEntryLists ==
    {JsUndef} \cup
    {[t |-> "array", a |-> Ascending(S)] : S \in SUBSET (0..(MaxLayerInfos - 1))}

ControlsInit ==
    /\ controls \in
          {[pc |-> "new", layerInfos |-> li, layerEntries |-> le, esriLayer |-> e,
            _controls |-> EmptyObject, featureIdx |-> -1, got |-> NoOutcome] :
              li \in LayerInfoLists, le \in LayerEntryLists, e \in BOOLEAN}
    /\ featureCount = Unused /\ formattedAttributes = Unused
    /\ visibility = Unused /\ identify = Unused
    /\ RecordIdle
    /\ RendererIdle
    /\ ZoomIdle

ControlsNext == ConstructDynamic \/ GetChildControl

ControlsSpec == ControlsInit /\ [][ControlsNext]_vars

-----------------------------------------------------------------------------
(* DynamicRecord.identify *)

LeafIndexes == 0..(MaxLayerInfos - 1)

\* new IdentifyResult(name, symbology, format, layerRec, featureIdx, caption)
IdentifyResult(featureIdx) ==
    [isLoading |-> TRUE, requestId |-> -1, requester |-> [featureIdx |-> featureIdx], data |-> 0]

NotSeen == [at |-> "never"]

\* identify(opts) up to its return.  The constructor keeps the geoApi in
\* _apiRef and nothing assigns _api, so on a record as constructed
\* this._api.layer is a TypeError; api tells whether the caller has put an
\* _api on the record.
identifyCall(id) ==
    IF ~id.api THEN [id EXCEPT !.pc = "threw"]
    ELSE [id EXCEPT !.pc = "asked", !.identifyPromise = "pending",
                    !.identifyResults = [leafIndex \in id.layerIds |-> IdentifyResult(leafIndex)]]

\* The then callback of serverLayerIdentify on clickResults with hits on the
\* sublayers hit: a then is put on the layer data of every hit and not
\* waited for, the results without a hit stop loading, and identifyPromise
\* resolves as the callback returns.  ahead are the thens on layer data that
\* has loaded already: their jobs are queued before any job of
\* identifyPromise.
clicked(id, hit) ==
    [id EXCEPT !.pc = "answered", !.identifyPromise = "resolved",
               !.waiting = hit,
               !.ahead = {i \in hit : id.layerData[i] = "loaded"},
               !.identifyResults =
                   [i \in DOMAIN id.identifyResults |->
                       IF i \in hit THEN id.identifyResults[i]
                       ELSE [id.identifyResults[i] EXCEPT !.isLoading = FALSE]]]

\* The then callback on the layer data of the hit sublayer i
hitLoaded(id, i) ==
    [id EXCEPT !.waiting = @ \ {i}, !.ahead = @ \ {i},
               !.identifyResults[i].isLoading = FALSE,
               !.identifyResults[i].data = @ + 1]

identifyOthers == <<symbologyVars, recordVars, featureCount, formattedAttributes, visibility, controls>>

Identify ==
    /\ identify.pc = "made"
    /\ identify' = identifyCall(identify)
    /\ UNCHANGED identifyOthers

ServerAnswers ==
    /\ identify.pc = "asked"
    /\ \E hit \in SUBSET identify.layerIds : identify' = clicked(identify, hit)
    /\ UNCHANGED identifyOthers

\* serverLayerIdentify rejects: the then callback never runs.
ServerFails ==
    /\ identify.pc = "asked"
    /\ identify' = [identify EXCEPT !.pc = "failed", !.identifyPromise = "rejected"]
    /\ UNCHANGED identifyOthers

\* The layerData promise of a sublayer settles.
SublayerDataSettles ==
    /\ identify.pc \in {"made", "asked", "answered"}
    /\ \E i \in identify.layerIds, how \in {"loaded", "rejected"} :
          /\ identify.layerData[i] = "pending"
          /\ identify' = [identify EXCEPT !.layerData[i] = how]
    /\ UNCHANGED identifyOthers

HitLoaded ==
    /\ identify.pc = "answered"
    /\ \E i \in identify.waiting :
          /\ identify.layerData[i] = "loaded"
          /\ identify' = hitLoaded(identify, i)
    /\ UNCHANGED identifyOthers

\* The caller's then callback on identifyPromise runs, after the jobs that
\* were queued ahead of it, and looks at the results.
CallerSeesResolved ==
    /\ identify.pc = "answered" /\ identify.seen = NotSeen
    /\ identify.ahead = {}
    /\ identify' = [identify EXCEPT
                        !.seen = [at |-> "resolved",
                                  loading |-> {i \in DOMAIN identify.identifyResults :
                                                  identify.identifyResults[i].isLoading}]]
    /\ UNCHANGED identifyOthers

\* A loaded dynamic record, as constructed or with an _api put on it by the
\* caller, and the leaves the caller asks about.
IdentifyInit ==
    /\ identify \in
          {[pc |-> "made", api |-> a, layerIds |-> ids, layerData |-> [i \in ids |-> "pending"],
            identifyResults |-> EmptyObject, identifyPromise |-> "none",
            waiting |-> {}, ahead |-> {}, seen |-> NotSeen] :
              a \in BOOLEAN, ids \in SUBSET LeafIndexes}
    /\ featureCount = Unused /\ formattedAttributes = Unused
    /\ visibility = Unused /\ controls = Unused
    /\ RecordIdle
    /\ RendererIdle
    /\ ZoomIdle

IdentifyNext ==
    \/ Identify \/ ServerAnswers \/ ServerFails
    \/ SublayerDataSettles \/ HitLoaded \/ CallerSeesResolved

IdentifySpec == IdentifyInit /\ [][IdentifyNext]_vars

-----------------------------------------------------------------------------
(* Vocabulary of the properties *)

Classified == result # NoResult
LegendBuilt == phase \in {"legend", "enhanced"}
Entries == legend.layers[1].legend

IsList(r) == r.type \in {UNIQUE_VALUE, CLASS_BREAKS}
Infos(r) == IF r.type = UNIQUE_VALUE THEN r.uniqueValueInfos ELSE r.classBreakInfos
HasDefault(r) == r.defaultSymbol # JsUndef

\* The branches of a renderer, in legend order: the entries, then the default.
Branches(r) ==
    CASE r.type = SIMPLE -> <<[symbol |-> r.symbol, label |-> r.label]>>
      [] IsList(r) ->
           [i \in 1..Len(Infos(r)) |-> [symbol |-> Infos(r)[i].symbol, label |-> Infos(r)[i].label]]
           \o (IF HasDefault(r)
                 THEN <<[symbol |-> r.defaultSymbol,
                         label |-> IF r.defaultLabel = JsUndef THEN JsStr("") ELSE r.defaultLabel]>>
                 ELSE <<>>)
      [] OTHER -> <<>>

\* The icon a branch carries after enhancement.
BranchUrl(r, i) ==
    CASE r.type = SIMPLE -> r.imageUrl
      [] i <= Len(Infos(r)) -> Infos(r)[i].imageUrl
      [] OTHER -> r.defaultImageUrl

BlankItem ==
    [label |-> JsStr("Error!"), imageData |-> JsStr(emptySVG),
     contentType |-> JsStr("image/svg+xml"), base |-> ""]

\* The symbols whose conversion to an image fails.
MissingLine(line) == line = JsUndef \/ line.width = JsUndef \/ Len(line.color) \in 1..3
Unconvertible(symbol) ==
    \/ symbol = JsUndef
    \/ symbol.type = "esriTS"
    \/ symbol.type \in {"esriSMS", "esriSFS"} /\ (MissingLine(symbol.outline) \/ Len(symbol.color) \in 1..3)
    \/ symbol.type \in {"esriSLS", "esriCLS"} /\ MissingLine(symbol)

-----------------------------------------------------------------------------
(* C1 - C10 *)

\* C1: searchRenderer never throws: every classification of a feature whose
\* attribute values are strings, numbers, null or missing returns an
\* {imageUrl, symbol} result.
SearchNeverThrows == Classified => result.ok

\* C2: on a numeric value v a classBreaks classification returns the default
\* below the minimum, otherwise the first entry i in list order with
\* lower[i] < v <= maxValue[i], lower[1] = minimum - 1 and lower[i] = maxValue[i-1],
\* and the default when no entry matches; with breaks [10, 20, 30] and minimum 0,
\* 5 and 10 give the first break, 11 the second, 31 and -1 the default.
ClassBreaksFirstMatch ==
    (Classified /\ renderer.type = CLASS_BREAKS /\ "val" \in DOMAIN attributes
        /\ attributes["val"].t = "number") =>
    LET v == attributes["val"].n
        m == renderer.minValue.n
        e == renderer.classBreakInfos
        lower(i) == IF i = 1 THEN m - 1 ELSE e[i - 1].maxValue.n
        match(i) == lower(i) < v /\ v <= e[i].maxValue.n
        entry(i) == [imageUrl |-> e[i].imageUrl, symbol |-> e[i].symbol]
        dflt == [imageUrl |-> renderer.defaultImageUrl, symbol |-> renderer.defaultSymbol]
        maxes == [i \in 1..Len(e) |-> e[i].maxValue.n]
    IN  /\ result.ok
        /\ v < m => result.v = dflt
        /\ v >= m =>
             /\ \A i \in 1..Len(e) :
                   (match(i) /\ \A j \in 1..(i - 1) : ~match(j)) => result.v = entry(i)
             /\ (\A i \in 1..Len(e) : ~match(i)) => result.v = dflt
        /\ (maxes = <<10, 20, 30>> /\ m = 0) =>
             /\ v \in {5, 10} => result.v = entry(1)
             /\ v = 11 => result.v = entry(2)
             /\ v \in {31, -1} => result.v = dflt

ClassBreaksSecondBreakHit ==
    /\ Classified /\ renderer.type = CLASS_BREAKS
    /\ [i \in 1..Len(renderer.classBreakInfos) |-> renderer.classBreakInfos[i].maxValue.n] = <<10, 20, 30>>
    /\ renderer.minValue = JsNum(0)
    /\ attributes = mkAttrs([val |-> JsNum(11)])
    /\ result.ok
    /\ result.v.symbol = lineSymbol(JsNum(2))
    /\ result.v.imageUrl # JsUndef

\* C3: a uniqueValue classification looks up the key made of the string form of
\* attributes[field1], then ', ' and attributes[field2] if field2 is configured,
\* then ', ' and attributes[field3] if field3 is configured, and returns the
\* entry whose value equals that key, or the default when none does.
UniqueValueKeyLookup ==
    (Classified /\ renderer.type = UNIQUE_VALUE) =>
    LET e == renderer.uniqueValueInfos
        key == JsToString(attrGet(attributes, renderer.field1))
               \o (IF renderer.field2 # JsUndef
                     THEN ", " \o JsToString(attrGet(attributes, renderer.field2)) ELSE "")
               \o (IF renderer.field3 # JsUndef
                     THEN ", " \o JsToString(attrGet(attributes, renderer.field3)) ELSE "")
        hit(i) == e[i].value = JsStr(key)
        dflt == [imageUrl |-> renderer.defaultImageUrl, symbol |-> renderer.defaultSymbol]
    IN  /\ result.ok
        /\ \A i \in 1..Len(e) :
              (hit(i) /\ \A j \in 1..(i - 1) : ~hit(j)) =>
                  result.v = [imageUrl |-> e[i].imageUrl, symbol |-> e[i].symbol]
        /\ (\A i \in 1..Len(e) : ~hit(i)) => result.v = dflt

\* C4: after legend = rendererToLegend(renderer, 0) and enhanceRenderer(renderer,
\* legend), every branch (the simple symbol, each entry, and the default whenever
\* a default symbol is configured) carries the data URI of the legend entry built
\* for it.  Stated on the renderers whose labels are pairwise distinct and whose
\* symbols all convert, where neither the documented label collision nor the
\* 'Error!' relabelling interferes.
RoundTripAttachesIcons ==
    (phase = "enhanced" /\ legend.layers[1].layerId = 0
        /\ \A i \in 1..Len(Branches(renderer)) :
              /\ ~Unconvertible(Branches(renderer)[i].symbol)
              /\ \A j \in 1..Len(Branches(renderer)) :
                    i # j => Branches(renderer)[i].label # Branches(renderer)[j].label) =>
    /\ Len(Entries) = Len(Branches(renderer))
    /\ \A i \in 1..Len(Branches(renderer)) :
          BranchUrl(renderer, i) = JsStr(dataUrl(Entries[i]))

\* C5: getZoomLevel terminates on every list of at least two levels sorted by
\* decreasing scale and every threshold: the loop reaches highLod = lowLod + 1
\* and the function returns.
ZoomTerminates == <>(Len(lods) < 2 \/ zpc = "done")

\* C6: for a non-zero threshold that some level reaches, getZoomLevel returns
\* the index i of the tightest level at or above it: lods[i].scale >= threshold
\* and every level after i has a scale below the threshold.
ZoomTightestLevel ==
    (zpc = "done" /\ maxScale # 0 /\ \E k \in 1..Len(lods) : lods[k] >= maxScale) =>
    /\ zret \in 0..(Len(lods) - 1)
    /\ lods[zret + 1] >= maxScale
    /\ \A k \in (zret + 2)..Len(lods) : lods[k] < maxScale

\* C7: a branch whose symbol is a text symbol yields the blank fallback entry
\* labelled 'Error!', the legend still has one entry per branch in order, and
\* every sibling entry is what it is when the text branch holds a supported
\* symbol instead.
supportedInstead(r) ==
    LET swap(symbol) == IF symbol # JsUndef /\ symbol.type = "esriTS"
                          THEN lineSymbol(JsNum(1)) ELSE symbol
        swapInfos(infos) == [i \in 1..Len(infos) |-> [infos[i] EXCEPT !.symbol = swap(@)]]
    IN  [r EXCEPT !.symbol = swap(@), !.defaultSymbol = swap(@),
                  !.uniqueValueInfos = swapInfos(@), !.classBreakInfos = swapInfos(@)]

IsText(branch) == branch.symbol # JsUndef /\ branch.symbol.type = "esriTS"

TextSymbolContained ==
    LegendBuilt =>
    LET b == Branches(renderer)
        other == rendererToLegend(supportedInstead(renderer), legend.layers[1].layerId).layers[1].legend
    IN  (\E i \in 1..Len(b) : IsText(b[i])) =>
        /\ Len(Entries) = Len(b)
        /\ \A i \in 1..Len(b) :
              IF IsText(b[i]) THEN Entries[i] = BlankItem
              ELSE Entries[i] = other[i] /\ (~Unconvertible(b[i].symbol) => Entries[i].label = b[i].label)

TextBranchWithSibling ==
    /\ LegendBuilt
    /\ Len(Branches(renderer)) = 3
    /\ IsText(Branches(renderer)[1])
    /\ Branches(renderer)[2].symbol = pictureSymbol
    /\ Entries[1] = BlankItem
    /\ Entries[2].label = Branches(renderer)[2].label
    /\ Entries[3].imageData # JsStr(emptySVG)

\* C8: a failure while converting one branch's symbol (a marker or fill symbol
\* with no outline, a line with no width, a missing symbol) is contained in that
\* entry: it is the blank fallback labelled 'Error!', never a partial image, and
\* the legend still has an entry for every branch.
FailureContained ==
    LegendBuilt =>
    /\ Len(Entries) = Len(Branches(renderer))
    /\ \A i \in 1..Len(Entries) :
          Unconvertible(Branches(renderer)[i].symbol) => Entries[i] = BlankItem

FailedBranchBesideGoodOne ==
    /\ LegendBuilt
    /\ Len(Branches(renderer)) = 2
    /\ Branches(renderer)[1].symbol = markerSymbol("esriSMSSquare", 8, JsUndef)
    /\ Entries[1] = BlankItem
    /\ ~Unconvertible(Branches(renderer)[2].symbol)
    /\ Entries[2] # BlankItem

\* C9 as claimed: one layer section with layerId = index; a simple renderer has
\* one entry labelled with the renderer's label; a list renderer has one entry
\* per value/break entry in order carrying that entry's label, then one default
\* entry iff a default symbol is configured, labelled defaultLabel or ''.
LegendCarriesBranchLabels ==
    LegendBuilt =>
    /\ Len(legend.layers) = 1
    /\ legend.layers[1].layerId \in LayerIndexes
    /\ Len(Entries) = Len(Branches(renderer))
    /\ \A i \in 1..Len(Entries) : Entries[i].label = Branches(renderer)[i].label

\* C9 amended: ... each entry carries its branch's label, or 'Error!' when the
\* conversion of the branch's symbol failed.
LegendStructure ==
    LegendBuilt =>
    /\ Len(legend.layers) = 1
    /\ legend.layers[1].layerId \in LayerIndexes
    /\ renderer.type = SIMPLE => Len(Entries) = 1
    /\ IsList(renderer) =>
          Len(Entries) = Len(Infos(renderer)) + (IF HasDefault(renderer) THEN 1 ELSE 0)
    /\ Len(Entries) = Len(Branches(renderer))
    /\ \A i \in 1..Len(Entries) :
          Entries[i].label = IF Unconvertible(Branches(renderer)[i].symbol)
                               THEN JsStr("Error!") ELSE Branches(renderer)[i].label

ListLegendWithUnlabelledDefault ==
    /\ LegendBuilt
    /\ renderer.type = CLASS_BREAKS
    /\ Len(renderer.classBreakInfos) = 2
    /\ HasDefault(renderer) /\ renderer.defaultLabel = JsUndef
    /\ Len(Entries) = 3
    /\ Entries[3].label = JsStr("")
    /\ Entries[1].label = JsStr("Error!")
    /\ Entries[2].label = renderer.classBreakInfos[2].label
    /\ legend.layers[1].layerId = 1

\* C10: a circle marker of size s is drawn with radius min(s / 2, 14) at
\* (16, 16); a named glyph uses the corners 16 - min(s, 28) / 2 and
\* 16 + min(s, 28) / 2, so the coordinates stay within [2, 30], the extent is at
\* most 28 for s > 32 and equals s for s <= 28.  (Corners and radius are doubled.)
circleIcon(r) ==
    "<svg xmlns='http://www.w3.org/2000/svg' width='32' height='32'><circle r='" \o r
    \o "' cx='16' cy='16' stroke='rgb(0,0,0)' stroke-opacity='255' stroke-width='1'"
    \o " stroke-linecap='butt' stroke-linejoin='miter' stroke-miterlimit='4' stroke-dasharray='none'"
    \o " fill='rgb(255,0,0)' fill-opacity='128' fill-rule='evenodd' transform='rotate(0,16,16)' /></svg>"

squareIcon(ul, lr) ==
    "<svg xmlns='http://www.w3.org/2000/svg' width='32' height='32'><path d='M "
    \o ul \o "," \o ul \o " " \o ul \o "," \o lr \o " " \o lr \o "," \o lr \o " " \o lr \o "," \o ul
    \o " Z' stroke='rgb(0,0,0)' stroke-opacity='255' stroke-width='1'"
    \o " stroke-linecap='butt' stroke-linejoin='miter' stroke-miterlimit='4' stroke-dasharray='none'"
    \o " fill='rgb(255,0,0)' fill-opacity='128' fill-rule='evenodd' transform='rotate(0,16,16)' /></svg>"

SizedMarker ==
    /\ LegendBuilt /\ renderer.type = SIMPLE
    /\ renderer.symbol # JsUndef /\ renderer.symbol.type = "esriSMS"
    /\ renderer.symbol.outline = lineSymbol(JsNum(1))

IconClamping ==
    SizedMarker =>
    LET s == renderer.symbol.size.n
        style == renderer.symbol.style
        trim == IF s < 28 THEN s ELSE 28
        c == getGlyphCorners(s)
    IN  /\ style = "esriSMSCircle" =>
              /\ Entries[1].imageData = JsStr(circleIcon(Num2Str(trim)))
              /\ circleRadius2(s) = trim
        /\ style = "esriSMSSquare" =>
              Entries[1].imageData = JsStr(squareIcon(Num2Str(32 - trim), Num2Str(32 + trim)))
        /\ style \notin {"esriSMSCircle", "esriSMSPath"} =>
              /\ c.upLeft = 32 - trim /\ c.loRite = 32 + trim /\ c.middle = 32
              /\ c.upLeft >= 4 /\ c.loRite <= 60
              /\ s > 32 => c.loRite - c.upLeft <= 2 * 28
              /\ s <= 28 => c.loRite - c.upLeft = 2 * s

OversizedSquareDrawn ==
    /\ SizedMarker
    /\ renderer.symbol.style = "esriSMSSquare"
    /\ renderer.symbol.size = JsNum(40)
    /\ Entries[1].imageData = JsStr(squareIcon("2", "30"))

OversizedCircleDrawn ==
    /\ SizedMarker
    /\ renderer.symbol.style = "esriSMSCircle"
    /\ renderer.symbol.size = JsNum(33)
    /\ Entries[1].imageData = JsStr(circleIcon("14"))

-----------------------------------------------------------------------------
(* C11 - C20 *)

KnownType(r) == r.type \in {SIMPLE, UNIQUE_VALUE, CLASS_BREAKS}

EmptyResult == [imageUrl |-> JsStr(""), symbol |-> emptyObject]

\* The classification found no entry: the uniqueValue key equals no entry's
\* value, or the classBreaks value is a number below the minimum or above every
\* upper bound.
LookupMiss ==
    /\ Classified
    /\ \/ /\ renderer.type = UNIQUE_VALUE
          /\ graphicKey(attributes, renderer).ok
          /\ \A i \in 1..Len(renderer.uniqueValueInfos) :
                renderer.uniqueValueInfos[i].value # JsStr(graphicKey(attributes, renderer).v)
       \/ /\ renderer.type = CLASS_BREAKS
          /\ "val" \in DOMAIN attributes
          /\ attributes["val"] # JsNull /\ attributes["val"].t = "number"
          /\ \/ attributes["val"].n < renderer.minValue.n
             \/ \A i \in 1..Len(renderer.classBreakInfos) :
                   attributes["val"].n > renderer.classBreakInfos[i].maxValue.n

\* C11: a lookup miss returns the renderer's default icon and symbol, and the
\* empty icon '' and the empty symbol {} when the renderer has no default.
MissFallsToDefaultOrEmpty ==
    LookupMiss =>
    /\ result.ok
    /\ result.v = IF HasDefault(renderer)
                    THEN [imageUrl |-> renderer.defaultImageUrl, symbol |-> renderer.defaultSymbol]
                    ELSE EmptyResult

\* C12: on a renderer whose type is none of simple, uniqueValue, classBreaks
\* every classification returns imageUrl '' and an empty symbol object, whatever
\* the attributes, and leaves the renderer as it was.
UnknownTypeEmptyResult ==
    (Classified /\ ~KnownType(renderer)) =>
    /\ result = Ok(EmptyResult)
    /\ renderer = unknownRenderer
    /\ \A attrs \in UniqueValueAttrs \cup ClassBreaksAttrs :
          searchRenderer(attrs, renderer) = Ok(EmptyResult)

UnknownTypeClassified ==
    /\ Classified /\ renderer.type = "heatmap"
    /\ attributes = mkAttrs([val |-> JsNum(5)])
    /\ result.ok /\ result.v.imageUrl = JsStr("")

\* C13: the legend of a renderer of unsupported kind is one layer section with
\* layerId = index and an empty legend list, and enhanceRenderer with that
\* legend builds an empty lookup and leaves the renderer as it was.
UnsupportedKindEmptyLegend ==
    (LegendBuilt /\ ~KnownType(renderer)) =>
    /\ Len(legend.layers) = 1
    /\ legend.layers[1].layerId \in LayerIndexes
    /\ legend.layers[1].legend = <<>>
    /\ \A index \in LayerIndexes :
          rendererToLegend(renderer, index) = [layers |-> <<[layerId |-> index, legend |-> <<>>]>>]
    /\ legendLookup(Entries, emptyLookup) = emptyLookup
    /\ phase = "enhanced" => renderer = unknownRenderer

UnsupportedKindEnhanced ==
    /\ phase = "enhanced" /\ renderer.type = "heatmap"
    /\ legend = [layers |-> <<[layerId |-> 1, legend |-> <<>>]>>]

\* The labels the branches of r carry and the icon attached to each: the
\* simple renderer's, every value/break entry's, and the default's.
Carriers(r) ==
    CASE r.type = SIMPLE -> {[label |-> r.label, url |-> r.imageUrl]}
      [] IsList(r) ->
           {[label |-> Infos(r)[i].label, url |-> Infos(r)[i].imageUrl] : i \in 1..Len(Infos(r))}
           \cup (IF Truthy(r.defaultLabel)
                   THEN {[label |-> r.defaultLabel, url |-> r.defaultImageUrl]} ELSE {})
      [] OTHER -> {}

\* The positions of the legend entries labelled label.
Labelled(label) == {i \in 1..Len(Entries) : Entries[i].label = label}

\* C14: legend entries sharing a label collide with last-write-wins: after
\* enhanceRenderer every branch carrying a label that legend entries have is
\* given the data URI of the last legend entry with that label.
DuplicateLabelsLastWins ==
    phase = "enhanced" =>
    \A c \in Carriers(renderer) :
        Labelled(c.label) # {} => c.url = JsStr(dataUrl(Entries[Max(Labelled(c.label))]))

SharedLabelEnhanced ==
    /\ phase = "enhanced" /\ renderer.type = UNIQUE_VALUE
    /\ Len(Entries) = 3 /\ Labelled(JsStr("a")) = {1, 2, 3}
    /\ Entries[1].imageData # Entries[3].imageData
    /\ Entries[2].imageData # Entries[3].imageData
    /\ renderer.defaultImageUrl = JsStr(dataUrl(Entries[3]))
    /\ \A i \in 1..2 : renderer.uniqueValueInfos[i].imageUrl = JsStr(dataUrl(Entries[3]))

\* C15: when several uniqueValue entries have the same value, a classification
\* returns the first of them in list order, never a later one: the result is
\* never the branch of an entry that an earlier entry shares its value with,
\* and a feature whose key is the shared value gets the first entry.
FirstDuplicateWins ==
    (Classified /\ renderer.type = UNIQUE_VALUE /\ result.ok) =>
    LET e == renderer.uniqueValueInfos
        entry(i) == [imageUrl |-> e[i].imageUrl, symbol |-> e[i].symbol]
    IN  \A i \in 1..Len(e) : \A j \in (i + 1)..Len(e) :
            e[i].value = e[j].value =>
                /\ result.v.symbol # e[j].symbol
                /\ (renderer.field2 = JsUndef /\ attrGet(attributes, renderer.field1) = e[i].value
                      /\ \A k \in 1..(i - 1) : e[k].value # e[i].value) => result.v = entry(i)

DuplicateValueClassified ==
    /\ Classified /\ renderer.type = UNIQUE_VALUE /\ result.ok
    /\ Len(renderer.uniqueValueInfos) = 2
    /\ renderer.uniqueValueInfos[1].value = JsStr("A")
    /\ renderer.uniqueValueInfos[2].value = JsStr("A")
    /\ attributes = mkAttrs([f1 |-> JsStr("A"), f2 |-> JsStr("B")])
    /\ renderer.field2 = JsUndef
    /\ result.v.symbol = lineSymbol(JsNum(1))
    /\ result.v.imageUrl # JsUndef

\* C16: with threshold 0 getZoomLevel returns the last index, lods.length - 1,
\* for every list of levels, and the binary search is never entered.
ZeroThresholdLastIndex ==
    (maxScale = 0 /\ zpc # "start") =>
    /\ zpc = "done"
    /\ zret = Len(lods) - 1
    /\ ~found /\ lowLod = 0 /\ highLod = Len(lods) - 1

ZeroThresholdOnTwoLevels ==
    /\ maxScale = 0 /\ zpc = "done"
    /\ Len(lods) = 2 /\ zret = 1

\* C17: classification is read-only: a step that classifies a feature changes
\* neither the renderer nor the legend, and after any number of classifications
\* the last result is the one searchRenderer gives for that feature alone, with
\* getGraphicIcon and getGraphicSymbol its two halves.
ClassifyReadOnly ==
    /\ [](Classified =>
            /\ result = searchRenderer(attributes, renderer)
            /\ getGraphicIcon(attributes, renderer)
                 = (IF result.ok THEN Ok(result.v.imageUrl) ELSE Throw)
            /\ getGraphicSymbol(attributes, renderer)
                 = (IF result.ok THEN Ok(result.v.symbol) ELSE Throw))
    /\ [][(attributes' # attributes \/ result' # result) =>
             (renderer' = renderer /\ legend' = legend)]_vars

UnsortedBreaksClassified ==
    /\ Classified /\ renderer.type = CLASS_BREAKS
    /\ [i \in 1..Len(renderer.classBreakInfos) |-> renderer.classBreakInfos[i].maxValue.n] = <<30, 20, 10>>
    /\ renderer.minValue = JsNum(0)
    /\ attributes = mkAttrs([val |-> JsNum(20)])
    /\ result.ok /\ result.v.symbol = lineSymbol(JsNum(1))

IsPicture(symbol) == symbol # JsUndef /\ symbol.type \in {"esriPMS", "esriPFS"}

\* C18: the legend entry of a branch with a picture-marker or picture-fill
\* symbol holds the symbol's imageData and contentType as they are, the base
\* ';base64' and the branch's label.
PicturePassThrough ==
    LegendBuilt =>
    /\ Len(Entries) = Len(Branches(renderer))
    /\ \A i \in 1..Len(Entries) :
          IsPicture(Branches(renderer)[i].symbol) =>
              Entries[i] = [label |-> Branches(renderer)[i].label,
                            imageData |-> Branches(renderer)[i].symbol.imageData,
                            contentType |-> Branches(renderer)[i].symbol.contentType,
                            base |-> ";base64"]

PictureFillEnhanced ==
    /\ phase = "enhanced" /\ renderer.type = SIMPLE
    /\ renderer.symbol # JsUndef /\ renderer.symbol.type = "esriPFS"
    /\ Entries[1].label = JsStr("a")
    /\ renderer.imageUrl = JsStr("data:image/png;base64,iVBORw0KGgo=")

\* C19: when the upper bounds of a classBreaks renderer ascend strictly and the
\* first is at least the minimum, every value v with minimum <= v <= last upper
\* bound passes the test of exactly one entry, the first whose upper bound is
\* at least v, and is classified to it: the minimum belongs to the first entry
\* and an upper bound to its own entry, not the next.
RangesPartition ==
    LET e == renderer.classBreakInfos
        v == attributes["val"]
        passing == {i \in 1..Len(e) : JsGt(v, minSplits(renderer)[i]) /\ JsLe(v, e[i].maxValue)}
        entry(i) == [imageUrl |-> e[i].imageUrl, symbol |-> e[i].symbol]
    IN  (/\ Classified /\ renderer.type = CLASS_BREAKS /\ Len(e) >= 1
         /\ \A i \in 1..(Len(e) - 1) : e[i].maxValue.n < e[i + 1].maxValue.n
         /\ e[1].maxValue.n >= renderer.minValue.n
         /\ "val" \in DOMAIN attributes /\ v # JsNull /\ v.t = "number"
         /\ renderer.minValue.n <= v.n /\ v.n <= e[Len(e)].maxValue.n) =>
        /\ \E i \in 1..Len(e) :
              /\ passing = {i}
              /\ v.n <= e[i].maxValue.n /\ \A j \in 1..(i - 1) : e[j].maxValue.n < v.n
              /\ result = Ok(entry(i))
        /\ v.n = renderer.minValue.n => passing = {1}
        /\ \A i \in 1..Len(e) : v.n = e[i].maxValue.n => passing = {i}

MinimumOnFirstBound ==
    /\ Classified /\ renderer.type = CLASS_BREAKS
    /\ [i \in 1..Len(renderer.classBreakInfos) |-> renderer.classBreakInfos[i].maxValue.n] = <<10, 20>>
    /\ renderer.minValue = JsNum(10)
    /\ attributes = mkAttrs([val |-> JsNum(10)])
    /\ result.ok /\ result.v.symbol = lineSymbol(JsNum(1))

\* r without the icons enhanceRenderer attaches.
WithoutIcons(r) ==
    LET strip(infos) == [i \in 1..Len(infos) |-> [infos[i] EXCEPT !.imageUrl = JsUndef]]
    IN  [r EXCEPT !.imageUrl = JsUndef, !.defaultImageUrl = JsUndef,
                  !.uniqueValueInfos = strip(@), !.classBreakInfos = strip(@)]

\* C20: enhanceRenderer changes nothing of the renderer but imageUrl and
\* defaultImageUrl (symbols, labels, values, bounds, field names, the order and
\* number of entries stay), never changes the legend, leaves a renderer of
\* unknown kind as it was, and applied again with the same legend gives the
\* same renderer.
EnhanceOnlyAttachesIcons ==
    /\ [](phase = "enhanced" => enhanceRenderer(renderer, legend) = renderer)
    /\ [][phase' = "enhanced" =>
             /\ WithoutIcons(renderer') = WithoutIcons(renderer)
             /\ legend' = legend
             /\ ~KnownType(renderer) => renderer' = renderer
             /\ phase = "enhanced" => renderer' = renderer]_vars

BreaksEnhanced ==
    /\ phase = "enhanced" /\ renderer.type = CLASS_BREAKS
    /\ Len(renderer.classBreakInfos) = 2
    /\ renderer.classBreakInfos[1].label = JsStr("a")
    /\ renderer.classBreakInfos[2].label = JsStr("b")
    /\ renderer.classBreakInfos[1].symbol = pictureSymbol
    /\ renderer.classBreakInfos[1].imageUrl = JsStr("data:image/png;base64,iVBORw0KGgo=")
    /\ renderer.classBreakInfos[2].imageUrl \notin {JsUndef, renderer.classBreakInfos[1].imageUrl}
    /\ renderer.defaultImageUrl # JsUndef

-----------------------------------------------------------------------------
(* C21 - C30 *)

\* C21: on a non-empty list of levels getZoomLevel reads lods[currentLod] only
\* at an index of the list, returns an index of the list, and at every loop
\* iteration 0 <= lowLod <= currentLod <= highLod <= lods.length - 1.
ZoomIndexesInRange ==
    (Len(lods) >= 1 /\ zpc \in {"loop", "done", "threw"}) =>
    /\ zpc # "threw"
    /\ zpc = "loop" =>
          /\ 0 <= lowLod /\ lowLod <= currentLod
          /\ currentLod <= highLod /\ highLod <= Len(lods) - 1
    /\ zpc = "done" => zret \in 0..(Len(lods) - 1)

\* C22: a record made from a pre-made layer starts LOADED and one made without
\* starts LOADING on the layer it constructed; either way the events of the
\* layer are bound exactly once, and constructLayer on a record made from a
\* pre-made layer throws 'Cannot construct pre-made layers'.
ConstructedRecordStarts ==
    /\ rpc # "new" => rpc = "ready"
    /\ (rpc = "ready" /\ outcome.call = "constructor") =>
          /\ record.bound = 1
          /\ IF args.esriLayer
                THEN record._state = states.LOADED /\ record._layer = PremadeLayer
                ELSE record._state = states.LOADING /\ record._layer = ConstructedLayer
    /\ (rpc = "ready" /\ outcome.call = "constructLayer" /\ args.esriLayer) =>
          outcome = Thrown("constructLayer", "Cannot construct pre-made layers")

\* The step is the handling of the named event or call by a record that is
\* not in a dispatch.
Handles(call) == ~Running /\ outcome'.call = call

\* The step sets the state and starts telling the state listeners registered.
Notifies(newState) ==
    /\ record' = [record EXCEPT !._state = newState]
    /\ dispatch' = _fireEvent("state", record._stateListeners, newState)

\* The listeners the dispatch has called are the first of those registered
\* when it began, in their order, and all of them once it has ended.
CalledInOrder ==
    /\ dispatch.pos = Len(dispatch.called)
    /\ Len(dispatch.called) <= Len(dispatch.snapshot)
    /\ dispatch.called = SubSeq(dispatch.snapshot, 1, Len(dispatch.called))
    /\ ~Running => dispatch.called = dispatch.snapshot

\* C23: error sets the state to ERROR, update-start to REFRESH, update-end to
\* LOADED, load to LOADED at once or when the EPSG lookup resolves, and load
\* on a record whose legend entry is removed changes nothing; every change
\* tells each registered state listener once the new state, which is
\* record.state all along; NEW and DEFAULT are never entered.
EventsDriveState ==
    /\ [](rpc = "ready" =>
            /\ record._state \in {states.LOADING, states.LOADED, states.REFRESH, states.ERROR}
            /\ dispatch.list = "state" => (dispatch.arg = record._state /\ CalledInOrder))
    /\ [][/\ Handles("onError") => Notifies(states.ERROR)
          /\ Handles("onUpdateStart") => Notifies(states.REFRESH)
          /\ Handles("onUpdateEnd") => Notifies(states.LOADED)
          /\ Handles("lookupPromise.then") => Notifies(states.LOADED)
          /\ Handles("onLoad") =>
                IF record.removed
                  THEN record' = record /\ loads' = loads /\ dispatch' = NoDispatch
                  ELSE \/ Notifies(states.LOADED) /\ loads' = loads
                       \/ /\ record._epsgLookup /\ loads' = loads + 1
                          /\ record' = record /\ dispatch' = NoDispatch]_vars

\* The lookup of a load resolved and two state listeners were told LOADED.
ListenersToldLoaded ==
    /\ rpc = "ready" /\ outcome.call = "lookupPromise.then"
    /\ dispatch.list = "state" /\ ~Running
    /\ Len(dispatch.called) >= 2 /\ dispatch.arg = states.LOADED

\* C24: a dispatch calls the listeners registered when it began, each once
\* and in registration order, whatever the listeners add or remove while it
\* runs; what they add is called from the next event on.
DispatchOverSnapshot ==
    /\ [](dispatch.list # "none" => CalledInOrder)
    /\ [][(dispatch'.list # "none" /\ dispatch'.pos = 0) =>
              dispatch'.snapshot = Live(record, dispatch'.list)]_vars

\* A dispatch has ended in which the listeners changed the list they were
\* called from, one of them removing itself.
ListChangedInDispatch ==
    /\ dispatch.list # "none" /\ ~Running
    /\ Len(dispatch.called) >= 2
    /\ Live(record, dispatch.list) # dispatch.snapshot
    /\ \E i \in 1..Len(dispatch.snapshot) :
          indexOf(Live(record, dispatch.list), dispatch.snapshot[i]) < 0

Removals == {"removeStateListener", "removeHoverListener"}

ListOf(rec, call) ==
    IF call \in {"addStateListener", "removeStateListener"}
      THEN rec._stateListeners ELSE rec._hoverListeners

\* The step is a removal that takes the first occurrence of the callback out
\* of its list and keeps the rest in order, or throws on a list that lacks
\* the callback and leaves the record as it was.
RemovesFirstOrThrows ==
    (~Running /\ outcome'.call \in Removals) =>
        LET list == ListOf(record, outcome'.call)
            occurrences == {i \in 1..Len(list) : list[i] = outcome'.listener}
        IN  IF occurrences = {}
              THEN /\ ~outcome'.ok /\ outcome'.message = NotRegistered
                   /\ record' = record
              ELSE /\ outcome'.ok
                   /\ \E i \in occurrences :
                         /\ \A j \in occurrences : i <= j
                         /\ ListOf(record', outcome'.call) =
                                [k \in 1..(Len(list) - 1) |-> IF k < i THEN list[k] ELSE list[k + 1]]
                   /\ ListOf(record', IF outcome'.call = "removeStateListener"
                                        THEN "removeHoverListener" ELSE "removeStateListener") =
                      ListOf(record, IF outcome'.call = "removeStateListener"
                                       THEN "removeHoverListener" ELSE "removeStateListener")

\* The step removes the callback that the step before it added.
RemovesTheAdded ==
    /\ ~Running
    /\ \/ outcome.call = "addStateListener" /\ outcome'.call = "removeStateListener"
       \/ outcome.call = "addHoverListener" /\ outcome'.call = "removeHoverListener"
    /\ outcome'.listener = outcome.listener

\* The list as it was before the add that the last step made.
BeforeTheAdd == SubSeq(ListOf(record, outcome.call), 1, Len(ListOf(record, outcome.call)) - 1)

\* C25 as stated: removal throws on a callback that is not registered and
\* changes nothing, else takes out the first occurrence only; add followed by
\* remove of the same callback restores the previous list.
RemoveUndoesAdd ==
    [][/\ RemovesFirstOrThrows
       /\ RemovesTheAdded => ListOf(record', outcome'.call) = BeforeTheAdd]_vars

\* C25: removal throws on a callback that is not registered and changes
\* nothing, else takes out the first occurrence only; add followed by remove
\* of the same callback restores the previous list when the callback was not
\* registered before the add, and otherwise takes the older registration out
\* and leaves the new one at the end.
RemoveUndoesFirstAdd ==
    [][/\ RemovesFirstOrThrows
       /\ RemovesTheAdded =>
             IF indexOf(BeforeTheAdd, outcome.listener) < 0
               THEN ListOf(record', outcome'.call) = BeforeTheAdd
               ELSE ListOf(record', outcome'.call) =
                       Append(splice(BeforeTheAdd, indexOf(BeforeTheAdd, outcome.listener)),
                              outcome.listener)]_vars

\* A callback registered twice among three listeners lost its older
\* registration and kept the newer one at the end.
FirstOfTwoRemoved ==
    /\ outcome.call = "removeStateListener" /\ outcome.ok
    /\ record._stateListeners = <<"g", "f">>
    /\ outcome.listener = "f"

\* The attempt came back with a result that has a count and no error.
Counted(reply) ==
    /\ reply.settled = "resolved"
    /\ reply.serviceResult # JsNull
    /\ reply.serviceResult.error = JsUndef
    /\ reply.serviceResult.count # JsUndef

\* C26: with a url getFeatureCount sends at most two requests, the second
\* only after the first failed; it resolves with the count of the first
\* attempt that has a count and no error and rejects with 'error getting
\* feature count' exactly when both attempts failed; without a url it
\* resolves with the number of local graphics and sends nothing.
FeatureCountAttempts ==
    LET fc == featureCount
        last == fc.replies[Len(fc.replies)]
    IN  fc.promise.state # "none" =>
          IF Truthy(fc.url)
            THEN /\ fc.requests \in {1, 2}
                 /\ Len(fc.replies) <= fc.requests
                 /\ fc.requests = 2 => ~Counted(fc.replies[1])
                 /\ (fc.replies # <<>> /\ ~Counted(fc.replies[1])) => fc.requests = 2
                 /\ fc.promise.state = "pending" <=> Len(fc.replies) < fc.requests
                 /\ fc.promise.state = "resolved" <=> (fc.replies # <<>> /\ Counted(last))
                 /\ fc.promise.state = "resolved" => fc.promise.value = last.serviceResult.count
                 /\ fc.promise.state = "rejected" <=>
                        (Len(fc.replies) = 2 /\ ~Counted(fc.replies[1]) /\ ~Counted(fc.replies[2]))
                 /\ fc.promise.state = "rejected" =>
                        fc.promise.value = JsStr("error getting feature count")
            ELSE /\ fc.requests = 0
                 /\ fc.promise = [state |-> "resolved", value |-> JsNum(fc.graphics)]

\* The first attempt failed and the second came back with a count of 0.
SecondAttemptCounted ==
    /\ Len(featureCount.replies) = 2
    /\ featureCount.promise = [state |-> "resolved", value |-> JsNum(0)]

\* The promises of the loads that getFormattedAttributes started, by state.
ChainsIn(promiseStates) ==
    {c \in 1..Len(formattedAttributes.chains) :
        formattedAttributes.chains[c].promise \in promiseStates}

\* C27: a call made while the load is pending or after it succeeded returns
\* the cached promise and starts nothing, so at most one load is pending at
\* a time; a load that failed rejects with 'Attrib loading failed' and is no
\* longer cached, and the call after it starts a new load.
FormattedAttributesCached ==
    /\ [](formattedAttributes.pc = "made" =>
            /\ Cardinality(ChainsIn({"pending"})) <= 1
            /\ \A c \in ChainsIn({"pending", "resolved"}) : formattedAttributes.cache = c
            /\ \A c \in ChainsIn({"rejected"}) :
                  /\ formattedAttributes.cache # c
                  /\ formattedAttributes.message = "Attrib loading failed"
            /\ formattedAttributes.cache = 0 =>
                  ChainsIn({"rejected"}) = 1..Len(formattedAttributes.chains))
    /\ [][(formattedAttributes'.returned # formattedAttributes.returned
           \/ Len(formattedAttributes'.chains) # Len(formattedAttributes.chains)) =>
             IF ChainsIn({"pending", "resolved"}) # {}
               THEN /\ formattedAttributes'.returned \in ChainsIn({"pending", "resolved"})
                    /\ formattedAttributes'.chains = formattedAttributes.chains
               ELSE /\ formattedAttributes'.chains = Append(formattedAttributes.chains, NewChain)
                    /\ formattedAttributes'.returned = Len(formattedAttributes'.chains)
                    /\ formattedAttributes'.cache = Len(formattedAttributes'.chains)]_vars

\* The first load failed and the call after it was given a new load.
FreshLoadAfterFailure ==
    /\ formattedAttributes.pc = "made"
    /\ Len(formattedAttributes.chains) = 2
    /\ formattedAttributes.chains[1].promise = "rejected"
    /\ formattedAttributes.chains[2].promise = "pending"
    /\ formattedAttributes.returned = 2

NoDuplicates(list) == \A i, j \in 1..Len(list) : list[i] = list[j] => i = j

Without(list, n) ==
    LET other(x) == x # n
    IN  SelectSeq(list, other)

\* The parent has a visibleLayers list, and it had no duplicates when the
\* children were made.
ListWithoutDuplicates ==
    /\ visibility.pc = "made" /\ visibility.parent.defined
    /\ NoDuplicates(visibility.given)

ChildControlFound ==
    (controls.pc = "ready" /\ controls.got.call = "getChildControl") =>
        IF toString(controls.featureIdx) \in DOMAIN controls._controls
          THEN /\ controls.got.ok
               /\ controls.got.v = controls._controls[toString(controls.featureIdx)]
          ELSE controls.got = Thrown("getChildControl", "attempt to get non-existing child control")

\* C30: identify returns one result for every leaf index asked about, each
\* loading at first, and once identifyPromise has resolved no result is
\* loading any more, the results of the sublayers with hits included.
IdentifyCompleteWhenResolved ==
    /\ identify.pc # "threw"
    /\ identify.pc \in {"asked", "answered", "failed"} =>
          DOMAIN identify.identifyResults = identify.layerIds
    /\ identify.pc = "asked" =>
          \A i \in identify.layerIds : identify.identifyResults[i].isLoading
    /\ identify.pc = "answered" =>
          /\ identify.identifyPromise = "resolved"
          /\ \A i \in identify.layerIds : ~identify.identifyResults[i].isLoading
          /\ identify.seen # NotSeen => identify.seen.loading = {}

====
